---- MODULE Spec2Model ----
(***************************************************************************)
(* A model of the GZIP framing layer of flate2: the pull encoder           *)
(* (bufread::GzEncoder), the push encoder (write::GzEncoder), the          *)
(* single-member decoder (bufread::GzDecoder) and the multi-member         *)
(* decoder (bufread::MultiGzDecoder), with the header builder and parser   *)
(* of gz.rs.  The DEFLATE codec, the CRC digest, the buffered reader and   *)
(* the zio transform engine are modelled from their contracts.             *)
(***************************************************************************)
EXTENDS Integers, Sequences, FiniteSets, TLC

(***************************************************************************)
(* Bounds of the model.                                                    *)
(***************************************************************************)
MaxLen == 2        \* longest payload of one member
MaxBuf == 3        \* longest caller buffer handed to read / write
MaxMembers == 2    \* members encoded into one stream
BufCap == 2        \* capacity of the buffered reader in front of a source
ScratchCap == 2    \* capacity of the push adapter's scratch buffer
MaxShort == 3      \* longest stream that did not come from an encoder
MaxEmpty == 1      \* reads into an empty buffer in one run
MaxBlock == 3      \* fetches of a source whose outcome one call prescribes
MaxHeader == 24    \* longest header kept as bytes of a stream on its own
MaxSink == 2       \* writes of a sink whose outcome one call prescribes

PayloadBytes == {0, 1}

Min(a, b) == IF a < b THEN a ELSE b

Drop(s, n) == SubSeq(s, n + 1, Len(s))
Take(s, n) == SubSeq(s, 1, n)

IsPrefix(s, t) == Len(s) <= Len(t) /\ s = SubSeq(t, 1, Len(s))

SeqsUpTo(S, n) == UNION {[1..k -> S] : k \in 0..n}

None == <<>>
Some(v) == <<v>>
IsSome(o) == Len(o) = 1

(***************************************************************************)
(* 32-bit unsigned values, kept as two 16-bit halves.                      *)
(***************************************************************************)
Half == 65536

U32Of(n) == [lo |-> n % Half, hi |-> (n \div Half) % Half]

Add32(u, n) ==
    LET s == u.lo + n
    IN  [lo |-> s % Half, hi |-> (u.hi + (s \div Half)) % Half]

\* (x >> 0) as u8, (x >> 8) as u8 of a 16-bit quantity
LE16(n) == <<n % 256, (n \div 256) % 256>>

\* the four little-endian bytes of a u32
LE32(u) == LE16(u.lo) \o LE16(u.hi)

\* b[0] | b[1] << 8 | b[2] << 16 | b[3] << 24
FromLE32(b) == [lo |-> b[1] + 256 * b[2], hi |-> b[3] + 256 * b[4]]

(***************************************************************************)
(* crc::Crc -- the incremental digest: update, sum, amount, reset.         *)
(***************************************************************************)
CrcNew == [sum |-> U32Of(0), amt |-> U32Of(0)]

CrcStep(s, b) ==
    [lo |-> (s.lo * 257 + b + 1) % Half,
     hi |-> (s.hi * 257 + s.lo + 1) % Half]

RECURSIVE CrcSum(_, _)
CrcSum(s, bytes) ==
    IF bytes = <<>> THEN s ELSE CrcSum(CrcStep(s, Head(bytes)), Tail(bytes))

CrcUpdate(c, bytes) ==
    [sum |-> CrcSum(c.sum, bytes), amt |-> Add32(c.amt, Len(bytes))]

(***************************************************************************)
(* mem::Compress / mem::Decompress -- the incremental DEFLATE codec as an  *)
(* opaque transducer run(input, output space, flush) ->                    *)
(* (consumed, produced, status).  A payload byte b is coded as the token   *)
(* b + 1 and the stream ends with the token EndToken.  The compressor      *)
(* buffers its input and emits only when flushed; a sync flush puts the    *)
(* token SyncToken (the empty stored block) behind what was pending, once  *)
(* for the input it follows.  With zlib_wrap the stream starts with a head *)
(* token that carries the level, ZlibHead + LevelCode(lvl).                *)
(***************************************************************************)
EndToken == 0
SyncToken == 255
ZlibHead == 120

Levels == {"None", "Fast", "Default", "Best"}

LevelCode(lvl) ==
    CASE lvl = "None" -> 0 [] lvl = "Fast" -> 1 [] lvl = "Default" -> 2
      [] lvl = "Best" -> 3

ZlibHeads == {ZlibHead + LevelCode(lvl) : lvl \in Levels}

Token(b) == b + 1

RECURSIVE Tokens(_)
Tokens(bytes) ==
    IF bytes = <<>> THEN <<>> ELSE <<Token(Head(bytes))>> \o Tokens(Tail(bytes))

CompressNew(lvl, wrap) ==
    [lvl |-> lvl, wrap |-> wrap,
     pend |-> IF wrap THEN <<ZlibHead + LevelCode(lvl)>> ELSE <<>>, done |-> FALSE,
     synced |-> FALSE, total_in |-> 0, total_out |-> 0]

Compress(z, input, space, flush) ==
    IF z.done
    THEN [z |-> z, used |-> 0, out |-> <<>>, status |-> "StreamEnd"]
    ELSE LET mark  == flush = "Sync" /\ ~(z.synced /\ input = <<>>)
             pend  == z.pend \o Tokens(input)
                      \o (IF mark THEN <<SyncToken>> ELSE <<>>)
             avail == CASE flush = "None"   -> <<>>
                        [] flush = "Sync"   -> pend
                        [] flush = "Finish" -> pend \o <<EndToken>>
             n     == Min(space, Len(avail))
             fin   == flush = "Finish" /\ n = Len(avail)
         IN  [z |-> [z EXCEPT
                       !.pend = IF fin THEN <<>> ELSE Drop(pend, Min(n, Len(pend))),
                       !.done = fin,
                       !.synced = (flush = "Sync") \/ (z.synced /\ input = <<>>),
                       !.total_in = z.total_in + Len(input),
                       !.total_out = z.total_out + n],
              used |-> Len(input),
              out |-> Take(avail, n),
              status |-> IF fin THEN "StreamEnd"
                         ELSE IF Len(input) = 0 /\ n = 0 THEN "BufError"
                         ELSE "Ok"]

\* Compress::reset: the state of a new compressor of the same level and kind
CompressReset(z) == CompressNew(z.lvl, z.wrap)

DecompressNew(wrap) ==
    [wrap |-> wrap, pend |-> <<>>, done |-> FALSE, total_in |-> 0, total_out |-> 0]

\* scan the tokens of input from index i with room for `space` more bytes
RECURSIVE Inflate(_, _, _, _)
Inflate(input, i, space, acc) ==
    IF i > Len(input) THEN [used |-> i - 1, out |-> acc, end |-> FALSE]
    ELSE IF input[i] = EndToken THEN [used |-> i, out |-> acc, end |-> TRUE]
    ELSE IF input[i] = SyncToken THEN Inflate(input, i + 1, space, acc)
    ELSE IF space = 0 THEN [used |-> i - 1, out |-> acc, end |-> FALSE]
    ELSE Inflate(input, i + 1, space - 1, Append(acc, input[i] - 1))

Decompress(z, input, space, flush) ==
    IF z.done
    THEN [z |-> z, used |-> 0, out |-> <<>>, status |-> "StreamEnd"]
    ELSE IF z.wrap /\ z.total_in = 0 /\ input # <<>> /\ input[1] \notin ZlibHeads
    THEN [z |-> z, used |-> 0, out |-> <<>>, status |-> "DataError"]
    ELSE LET result(r) ==
                 [z |-> [z EXCEPT !.done = r.end,
                                  !.total_in = z.total_in + r.used,
                                  !.total_out = z.total_out + Len(r.out)],
                  used |-> r.used,
                  out |-> r.out,
                  status |-> IF r.end THEN "StreamEnd"
                             ELSE IF r.used = 0 /\ r.out = <<>> THEN "BufError"
                             ELSE "Ok"]
         IN  result(Inflate(input,
                            IF z.wrap /\ z.total_in = 0 /\ input # <<>> THEN 2 ELSE 1,
                            space, <<>>))

Run(dir, z, input, space, flush) ==
    IF dir = "compress" THEN Compress(z, input, space, flush)
    ELSE Decompress(z, input, space, flush)

(***************************************************************************)
(* The peekable source (BufRead): the bytes `data`, of which `pos` are     *)
(* consumed and those up to `lim` are buffered.  `script` says, for the    *)
(* coming fetches from the underlying reader, which of them return         *)
(* WouldBlock; the fetches behind the script succeed.                      *)
(***************************************************************************)
SrcNew(data) == [data |-> data, pos |-> 0, lim |-> 0, script |-> <<>>]

\* BufReader::new(r) over the adapter r
BufReaderNew(r) == [data |-> <<>>, pos |-> 0, lim |-> 0, script |-> <<>>, inner |-> r]

\* Read::read of the adapter r that a BufReader stands in front of: r is a
\* pull GzEncoder or a pull DEFLATE / ZLIB adapter, whose codec tells the
\* direction; the bytes the caller gets are the ret first ones placed
RECURSIVE ZioRead(_, _, _)
RECURSIVE GzEncoderRead(_, _)
InnerRead(r, n) ==
    IF "header" \in DOMAIN r
    THEN LET gz(g) == [r |-> g.e, out |-> Take(g.placed, g.ret), err |-> g.err]
         IN  gz(GzEncoderRead(r, n))
    ELSE LET zio(g) == [r |-> g.p, out |-> g.out, err |-> g.err]
         IN  zio(ZioRead(IF "lvl" \in DOMAIN r.z THEN "compress" ELSE "decompress",
                         r, n))

\* fill_buf: refill the buffer when it is used up, then expose it.  A source
\* with the field `inner` is a BufReader over another adapter: data holds
\* what was fetched from the adapter so far, and a refill is one read of it
FillBuf(src) ==
    IF src.pos # src.lim THEN [src |-> src, err |-> "none"]
    ELSE IF "inner" \in DOMAIN src
    THEN LET got(r) ==
                 IF r.err # "none"
                 THEN [src |-> [src EXCEPT !.inner = r.r], err |-> r.err]
                 ELSE [src |-> [src EXCEPT !.inner = r.r,
                                           !.data = src.data \o r.out,
                                           !.lim = src.lim + Len(r.out)],
                       err |-> "none"]
         IN  got(InnerRead(src.inner, BufCap))
    ELSE IF src.script # <<>> /\ Head(src.script)
    THEN [src |-> [src EXCEPT !.script = Tail(src.script)], err |-> "WouldBlock"]
    ELSE [src |-> [src EXCEPT !.lim = Min(src.pos + BufCap, Len(src.data)),
                              !.script = IF src.script = <<>> THEN <<>>
                                         ELSE Tail(src.script)],
          err |-> "none"]

View(src) == SubSeq(src.data, src.pos + 1, src.lim)

Consume(src, n) == [src EXCEPT !.pos = src.pos + n]

\* Read::read of a buffered source into a buffer of n bytes
SrcRead(src, n) ==
    LET take(s, k) == [src |-> Consume(s, k), out |-> Take(View(s), k), err |-> "none"]
        from(f) == IF f.err # "none"
                   THEN [src |-> f.src, out |-> <<>>, err |-> f.err]
                   ELSE take(f.src, Min(n, Len(View(f.src))))
    IN  from(FillBuf(src))

\* Read::read_exact: repeated read until n bytes are in, UnexpectedEof on end
RECURSIVE ReadExactLoop(_, _, _)
ReadExactLoop(src, n, acc) ==
    IF n = 0 THEN [src |-> src, out |-> acc, err |-> "none"]
    ELSE LET got(r) ==
                 IF r.err # "none"
                 THEN [src |-> r.src, out |-> acc, err |-> r.err]
                 ELSE IF r.out = <<>>
                 THEN [src |-> r.src, out |-> acc, err |-> "UnexpectedEof"]
                 ELSE ReadExactLoop(r.src, n - Len(r.out), acc \o r.out)
         IN  got(SrcRead(src, n))

ReadExact(src, n) == ReadExactLoop(src, n, <<>>)

\* the bytes() iterator up to and excluding a NUL byte, or up to the end
RECURSIVE ReadUntilNulLoop(_, _)
ReadUntilNulLoop(src, acc) ==
    LET got(r) ==
            IF r.err # "none"
            THEN [src |-> r.src, out |-> acc, raw |-> acc, err |-> r.err]
            ELSE IF r.out = <<>> \/ r.out[1] = 0
            THEN [src |-> r.src, out |-> acc, raw |-> acc \o r.out, err |-> "none"]
            ELSE ReadUntilNulLoop(r.src, acc \o r.out)
    IN  got(SrcRead(src, 1))

ReadUntilNul(src) == ReadUntilNulLoop(src, <<>>)

(***************************************************************************)
(* zio::read -- the pull transform engine.  p = [src, z, crc]; for a       *)
(* compressor the source is a CrcReader, which digests what is consumed.   *)
(***************************************************************************)
ZioRead(dir, p, n) ==
    IF n = 0
    THEN [p |-> p, ret |-> 0, out |-> <<>>, err |-> "none"]
    ELSE LET ran(input, eof, r, q) ==
                 IF r.status = "DataError"
                 THEN [p |-> q, ret |-> 0, out |-> <<>>, err |-> "DataError"]
                 ELSE IF r.out # <<>>
                 THEN [p |-> q, ret |-> Len(r.out), out |-> r.out, err |-> "none"]
                 ELSE IF r.status = "StreamEnd"
                 THEN [p |-> q, ret |-> 0, out |-> <<>>, err |-> "none"]
                 ELSE IF eof
                 THEN [p |-> q, ret |-> 0, out |-> <<>>, err |-> "UnexpectedEof"]
                 ELSE ZioRead(dir, q, n)
             run(s1, input, eof, r) ==
                 ran(input, eof, r,
                     [p EXCEPT !.src = Consume(s1, r.used),
                               !.z   = r.z,
                               !.crc = IF dir = "compress"
                                       THEN CrcUpdate(p.crc, Take(input, r.used))
                                       ELSE p.crc])
             filled(s1, input) ==
                 run(s1, input, input = <<>>,
                     Run(dir, p.z, input, n, IF input = <<>> THEN "Finish" ELSE "None"))
             fill(f) ==
                 IF f.err # "none"
                 THEN [p |-> [p EXCEPT !.src = f.src], ret |-> 0, out |-> <<>>,
                       err |-> f.err]
                 ELSE filled(f.src, View(f.src))
         IN  fill(FillBuf(p.src))

(***************************************************************************)
(* gz.rs: the header builder and parser.                                   *)
(***************************************************************************)
FHCRC == 2
FEXTRA == 4
FNAME == 8
FCOMMENT == 16

HasFlag(flg, bit) == (flg \div bit) % 2 = 1

BuilderNew == [extra |-> None, filename |-> None, comment |-> None,
               mtime |-> U32Of(0)]

\* Builder::mtime
BuilderMtime(b, mtime) == [b EXCEPT !.mtime = mtime]

\* Builder::extra
BuilderExtra(b, extra) == [b EXCEPT !.extra = Some(extra)]

\* a bytes value holds a NUL: CString::new fails
HasNul(v) == \E i \in 1..Len(v) : v[i] = 0

\* Builder::filename that takes any bytes
BuilderFilenameAny(b, filename) ==
    [b |-> [b EXCEPT !.filename = Some(filename)], err |-> "none"]

\* Builder::filename: CString::new(..).unwrap() panics on a NUL
BuilderFilename(b, filename) ==
    IF HasNul(filename) THEN [b |-> b, err |-> "panic"]
    ELSE [b |-> [b EXCEPT !.filename = Some(filename)], err |-> "none"]

\* Builder::comment
BuilderComment(b, comment) ==
    IF HasNul(comment) THEN [b |-> b, err |-> "panic"]
    ELSE [b |-> [b EXCEPT !.comment = Some(comment)], err |-> "none"]

XflOf(lvl) == CASE lvl = "Best" -> 2 [] lvl = "Fast" -> 4 [] OTHER -> 0

OsByte(os) ==
    CASE os = "linux" -> 3 [] os = "macos" -> 7 [] os = "win32" -> 0 [] OTHER -> 255

\* into_header with the OS byte left out of the fixed part
into_header_no_os(b, lvl, os) ==
    LET extra == IF IsSome(b.extra)
                 THEN LE16(Len(b.extra[1]) % Half) \o b.extra[1] ELSE <<>>
        fname == IF IsSome(b.filename) THEN b.filename[1] \o <<0>> ELSE <<>>
        comm  == IF IsSome(b.comment) THEN b.comment[1] \o <<0>> ELSE <<>>
        flg   == (IF IsSome(b.extra) THEN FEXTRA ELSE 0)
                 + (IF IsSome(b.filename) THEN FNAME ELSE 0)
                 + (IF IsSome(b.comment) THEN FCOMMENT ELSE 0)
    IN  <<31, 139, 8, flg>> \o LE32(b.mtime) \o <<XflOf(lvl)>>
        \o extra \o fname \o comm

\* into_header with the comment ahead of the filename
into_header_comment_first(b, lvl, os) ==
    LET extra == IF IsSome(b.extra)
                 THEN LE16(Len(b.extra[1]) % Half) \o b.extra[1] ELSE <<>>
        fname == IF IsSome(b.filename) THEN b.filename[1] \o <<0>> ELSE <<>>
        comm  == IF IsSome(b.comment) THEN b.comment[1] \o <<0>> ELSE <<>>
        flg   == (IF IsSome(b.extra) THEN FEXTRA ELSE 0)
                 + (IF IsSome(b.filename) THEN FNAME ELSE 0)
                 + (IF IsSome(b.comment) THEN FCOMMENT ELSE 0)
    IN  <<31, 139, 8, flg>> \o LE32(b.mtime) \o <<XflOf(lvl), OsByte(os)>>
        \o extra \o comm \o fname

\* Builder::into_header
into_header(b, lvl, os) ==
    LET extra == IF IsSome(b.extra)
                 THEN LE16(Len(b.extra[1]) % Half) \o b.extra[1] ELSE <<>>
        fname == IF IsSome(b.filename) THEN b.filename[1] \o <<0>> ELSE <<>>
        comm  == IF IsSome(b.comment) THEN b.comment[1] \o <<0>> ELSE <<>>
        flg   == (IF IsSome(b.extra) THEN FEXTRA ELSE 0)
                 + (IF IsSome(b.filename) THEN FNAME ELSE 0)
                 + (IF IsSome(b.comment) THEN FCOMMENT ELSE 0)
    IN  <<31, 139, 8, flg>> \o LE32(b.mtime) \o <<XflOf(lvl), OsByte(os)>>
        \o extra \o fname \o comm

\* a field of the header that is absent: nothing is read
NoField(src) == [src |-> src, out |-> <<>>, raw |-> <<>>, err |-> "none"]

HeaderFail(src, e) == [src |-> src, err |-> e, header |-> None]

\* read_gz_header, the end, with the header CRC read and not compared
read_gz_header_crc_unchecked(hd, ex, fnm, cmt, seen, hc) ==
    IF hc.err # "none" THEN HeaderFail(hc.src, hc.err)
    ELSE [src |-> hc.src, err |-> "none",
          header |-> Some([extra    |-> IF HasFlag(hd[4], FEXTRA) THEN Some(ex) ELSE None,
                           filename |-> IF HasFlag(hd[4], FNAME) THEN Some(fnm.out) ELSE None,
                           comment  |-> IF HasFlag(hd[4], FCOMMENT) THEN Some(cmt.out) ELSE None,
                           mtime    |-> FromLE32(SubSeq(hd, 5, 8))])]

\* read_gz_header, the end: the optional header CRC hc is compared with the
\* low 16 bits of the CRC of the header bytes seen, and the Header returned
read_gz_header_crc(hd, ex, fnm, cmt, seen, hc) ==
    IF hc.err # "none" THEN HeaderFail(hc.src, hc.err)
    ELSE IF HasFlag(hd[4], FHCRC)
            /\ CrcSum(U32Of(0), seen).lo # hc.out[1] + 256 * hc.out[2]
    THEN HeaderFail(hc.src, "corrupt")
    ELSE [src |-> hc.src, err |-> "none",
          header |-> Some([extra    |-> IF HasFlag(hd[4], FEXTRA) THEN Some(ex) ELSE None,
                           filename |-> IF HasFlag(hd[4], FNAME) THEN Some(fnm.out) ELSE None,
                           comment  |-> IF HasFlag(hd[4], FCOMMENT) THEN Some(cmt.out) ELSE None,
                           mtime    |-> FromLE32(SubSeq(hd, 5, 8))])]

\* read_gz_header after the comment cmt
read_gz_header_comment(hd, xl, ex, fnm, cmt) ==
    IF cmt.err # "none" THEN HeaderFail(cmt.src, cmt.err)
    ELSE
    read_gz_header_crc(hd, ex, fnm, cmt, hd \o xl \o ex \o fnm.raw \o cmt.raw,
                       IF HasFlag(hd[4], FHCRC) THEN ReadExact(cmt.src, 2)
                       ELSE NoField(cmt.src))

\* read_gz_header after the file name fnm
read_gz_header_name(hd, xl, ex, fnm) ==
    IF fnm.err # "none" THEN HeaderFail(fnm.src, fnm.err)
    ELSE
    read_gz_header_comment(hd, xl, ex, fnm,
                           IF HasFlag(hd[4], FCOMMENT) THEN ReadUntilNul(fnm.src)
                           ELSE NoField(fnm.src))

\* read_gz_header after the extra field ex, whose length bytes were xl
read_gz_header_extra(hd, xl, ex) ==
    IF ex.err # "none" THEN HeaderFail(ex.src, ex.err)
    ELSE read_gz_header_name(hd, xl, ex.out,
                             IF HasFlag(hd[4], FNAME) THEN ReadUntilNul(ex.src)
                             ELSE NoField(ex.src))

\* read_gz_header after the two length bytes xl of the extra field
read_gz_header_xlen(hd, xl) ==
    IF xl.err # "none" THEN HeaderFail(xl.src, xl.err)
    ELSE read_gz_header_extra(hd, xl.out,
                              IF HasFlag(hd[4], FEXTRA)
                              THEN ReadExact(xl.src, xl.out[1] + 256 * xl.out[2])
                              ELSE NoField(xl.src))

\* the check of the fixed bytes without the check of the method
read_gz_header_any_method(h) ==
    IF h.err # "none" THEN HeaderFail(h.src, h.err)
    ELSE IF h.out[1] # 31 \/ h.out[2] # 139 THEN HeaderFail(h.src, "bad_header")
    ELSE read_gz_header_xlen(h.out,
                             IF HasFlag(h.out[4], FEXTRA) THEN ReadExact(h.src, 2)
                             ELSE NoField(h.src))

\* read_gz_header after the ten fixed bytes h: magic, method, flags
read_gz_header_fixed(h) ==
    IF h.err # "none" THEN HeaderFail(h.src, h.err)
    ELSE IF h.out[1] # 31 \/ h.out[2] # 139 THEN HeaderFail(h.src, "bad_header")
    ELSE IF h.out[3] # 8 THEN HeaderFail(h.src, "bad_header")
    ELSE read_gz_header_xlen(h.out,
                             IF HasFlag(h.out[4], FEXTRA) THEN ReadExact(h.src, 2)
                             ELSE NoField(h.src))

\* gz::read_gz_header over the source src
read_gz_header(src) == read_gz_header_fixed(ReadExact(src, 10))

(***************************************************************************)
(* bufread::GzEncoder -- the pull encoder.                                 *)
(* e = [inner: [src, z, crc], header, pos, eof]                            *)
(***************************************************************************)
\* Builder::buf_read
GzEncoderNew(payload, b, lvl, os) ==
    [inner  |-> [src |-> SrcNew(payload), z |-> CompressNew(lvl, FALSE), crc |-> CrcNew],
     header |-> into_header(b, lvl, os),
     pos    |-> 0,
     eof    |-> FALSE]

\* copy that takes the bytes from the start of `from`, not from pos
copy_from_start(n, from, pos) ==
    LET min == Min(n, Len(from) - pos)
    IN  [bytes |-> SubSeq(from, 1, min), pos |-> pos + min]

\* copy(into, from, pos): the bytes copied and the new position
copy(n, from, pos) ==
    LET min == Min(n, Len(from) - pos)
    IN  [bytes |-> SubSeq(from, pos + 1, pos + min), pos |-> pos + min]

\* the 8 bytes of the trailer: buf in GzEncoder::read_footer and try_finish
FooterBytes(crc) == LE32(crc.sum) \o LE32(crc.amt)

\* GzEncoder::read_footer: ret is the returned count, placed the bytes written
read_footer(e, n) ==
    IF e.pos = 8
    THEN [e |-> e, ret |-> 0, placed |-> <<>>, err |-> "none"]
    ELSE LET c == copy(n, FooterBytes(e.inner.crc), e.pos)
         IN  [e |-> [e EXCEPT !.pos = c.pos], ret |-> Len(c.bytes),
              placed |-> c.bytes, err |-> "none"]

\* impl Read for GzEncoder: read into a buffer of n bytes
GzEncoderRead(e, n) ==
    IF e.eof THEN read_footer(e, n)
    ELSE
    LET footer(c, f) == [f EXCEPT !.placed = c.bytes \o f.placed]
        inner(c, amt, r, e2) ==
            IF r.err # "none"
            THEN [e |-> e2, ret |-> 0, placed |-> c.bytes, err |-> r.err]
            ELSE IF r.ret = 0
            THEN footer(c, read_footer([e2 EXCEPT !.eof = TRUE, !.pos = 0], n - amt))
            ELSE [e |-> e2, ret |-> amt + r.ret, placed |-> c.bytes \o r.out,
                  err |-> "none"]
        payload(c, amt, e1, r) == inner(c, amt, r, [e1 EXCEPT !.inner = r.p])
        header(inHeader, c, amt, e1) ==
            IF inHeader /\ amt = n
            THEN [e |-> e1, ret |-> amt, placed |-> c.bytes, err |-> "none"]
            ELSE payload(c, amt, e1, ZioRead("compress", e1.inner, n - amt))
        copied(inHeader, c) == header(inHeader, c, Len(c.bytes), [e EXCEPT !.pos = c.pos])
    IN  copied(e.pos < Len(e.header),
               IF e.pos < Len(e.header) THEN copy(n, e.header, e.pos)
               ELSE [bytes |-> <<>>, pos |-> e.pos])

(***************************************************************************)
(* bufread::GzDecoder and bufread::MultiGzDecoder -- the pull decoders.    *)
(* d = [inner: [src, z, crc], header, finished], with three history        *)
(* fields: h_member, the number of headers parsed so far; h_plain, the     *)
(* bytes decoded since the last header; h_closed, for every trailer that   *)
(* passed its checks, the bytes decoded for its member and the 8 bytes     *)
(* that were read as its trailer.                                          *)
(***************************************************************************)
\* GzDecoder::new / MultiGzDecoder::new over the buffered source src
GzDecoderOver(src) ==
    LET parsed(h) ==
            IF h.err # "none" THEN [err |-> h.err, d |-> None]
            ELSE [err |-> "none",
                  d |-> Some([inner    |-> [src |-> h.src, z |-> DecompressNew(FALSE),
                                            crc |-> CrcNew],
                              header   |-> h.header[1],
                              finished |-> FALSE,
                              h_member |-> 1,
                              h_plain  |-> <<>>,
                              h_closed |-> <<>>])]
    IN  parsed(read_gz_header(src))

\* GzDecoder::new / MultiGzDecoder::new over the bytes data
GzDecoderNew(data) == GzDecoderOver(SrcNew(data))

\* CrcReader<DeflateDecoder<R>>::read
CrcReaderRead(d, n) ==
    LET digest(r) ==
            [d |-> [d EXCEPT !.inner = [r.p EXCEPT !.crc = CrcUpdate(r.p.crc, r.out)],
                             !.h_plain = d.h_plain \o r.out],
             ret |-> r.ret, out |-> r.out, err |-> r.err]
    IN  digest(ZioRead("decompress", d.inner, n))

\* the trailer loop reporting a short trailer as an unexpected end
ReadTrailerEof(src, buf) ==
    LET got(r) ==
            IF Len(r.out) < 8
            THEN [src |-> r.src, buf |-> buf \o r.out, err |-> "UnexpectedEof"]
            ELSE [src |-> r.src, buf |-> buf \o r.out, err |-> "none"]
    IN  got(ReadExact(src, 8 - Len(buf)))

\* the loop of finish / finish_member that reads the 8 trailer bytes
RECURSIVE ReadTrailer(_, _)
ReadTrailer(src, buf) ==
    IF Len(buf) >= 8 THEN [src |-> src, buf |-> buf, err |-> "none"]
    ELSE LET got(r) ==
                 IF r.err # "none"
                 THEN [src |-> r.src, buf |-> buf, err |-> r.err]
                 ELSE IF r.out = <<>>
                 THEN [src |-> r.src, buf |-> buf, err |-> "corrupt"]
                 ELSE ReadTrailer(r.src, buf \o r.out)
         IN  got(SrcRead(src, 8 - Len(buf)))

Closed(d, buf) == [plain |-> d.h_plain, tail |-> buf]

\* finish that reads and checks a trailer on every call
GzDecoderFinishAgain(d) ==
    LET check(t, d1) ==
            IF t.err # "none" THEN [d |-> d1, err |-> t.err]
            ELSE IF FromLE32(SubSeq(t.buf, 1, 4)) # d.inner.crc.sum
            THEN [d |-> d1, err |-> "corrupt"]
            ELSE IF FromLE32(SubSeq(t.buf, 5, 8)) # d.inner.crc.amt
            THEN [d |-> d1, err |-> "corrupt"]
            ELSE [d |-> [d1 EXCEPT !.finished = TRUE,
                                   !.h_closed = Append(d.h_closed, Closed(d, t.buf))],
                  err |-> "none"]
        trailer(t) == check(t, [d EXCEPT !.inner.src = t.src])
    IN  trailer(ReadTrailer(d.inner.src, <<>>))

\* finish without the comparison of the length field
GzDecoderFinishNoAmt(d) ==
    IF d.finished THEN [d |-> d, err |-> "none"]
    ELSE LET check(t, d1) ==
                 IF t.err # "none" THEN [d |-> d1, err |-> t.err]
                 ELSE IF FromLE32(SubSeq(t.buf, 1, 4)) # d.inner.crc.sum
                 THEN [d |-> d1, err |-> "corrupt"]
                 ELSE [d |-> [d1 EXCEPT !.finished = TRUE,
                                        !.h_closed = Append(d.h_closed, Closed(d, t.buf))],
                       err |-> "none"]
             trailer(t) == check(t, [d EXCEPT !.inner.src = t.src])
         IN  trailer(ReadTrailer(d.inner.src, <<>>))

\* GzDecoder::finish
GzDecoderFinish(d) ==
    IF d.finished THEN [d |-> d, err |-> "none"]
    ELSE LET check(t, d1) ==
                 IF t.err # "none" THEN [d |-> d1, err |-> t.err]
                 ELSE IF FromLE32(SubSeq(t.buf, 1, 4)) # d.inner.crc.sum
                 THEN [d |-> d1, err |-> "corrupt"]
                 ELSE IF FromLE32(SubSeq(t.buf, 5, 8)) # d.inner.crc.amt
                 THEN [d |-> d1, err |-> "corrupt"]
                 ELSE [d |-> [d1 EXCEPT !.finished = TRUE,
                                        !.h_closed = Append(d.h_closed, Closed(d, t.buf))],
                       err |-> "none"]
             trailer(t) == check(t, [d EXCEPT !.inner.src = t.src])
         IN  trailer(ReadTrailer(d.inner.src, <<>>))

\* impl Read for GzDecoder
GzDecoderRead(d, n) ==
    LET finished(f) == [d |-> f.d, ret |-> 0, out |-> <<>>, err |-> f.err]
        inner(r) ==
            IF r.err # "none" THEN r
            ELSE IF r.ret = 0 THEN finished(GzDecoderFinish(r.d))
            ELSE r
    IN  inner(CrcReaderRead(d, n))

\* finish_member that keeps the header of the first member
finish_member_stale(d) ==
    IF d.finished THEN [d |-> d, ret |-> 0, err |-> "none"]
    ELSE LET next(d2, remaining, h) ==
                 IF h.err # "none"
                 THEN [d |-> [d2 EXCEPT !.inner.src = h.src], ret |-> 0,
                       err |-> h.err]
                 ELSE [d |-> [d2 EXCEPT !.inner = [src |-> h.src,
                                                   z   |-> DecompressNew(FALSE),
                                                   crc |-> CrcNew],
                                        !.h_member = d.h_member + 1,
                                        !.h_plain = <<>>],
                       ret |-> remaining, err |-> "none"]
             verified(d2, s1, remaining) ==
                 IF remaining = 0
                 THEN [d |-> [d2 EXCEPT !.inner.src = s1, !.finished = TRUE],
                       ret |-> 0, err |-> "none"]
                 ELSE next(d2, remaining, read_gz_header(s1))
             peek(d2, f) ==
                 IF f.err # "none"
                 THEN [d |-> [d2 EXCEPT !.inner.src = f.src], ret |-> 0, err |-> f.err]
                 ELSE verified(d2, f.src, Len(View(f.src)))
             check(t, d1) ==
                 IF t.err # "none" THEN [d |-> d1, ret |-> 0, err |-> t.err]
                 ELSE IF FromLE32(SubSeq(t.buf, 1, 4)) # d.inner.crc.sum
                 THEN [d |-> d1, ret |-> 0, err |-> "corrupt"]
                 ELSE IF FromLE32(SubSeq(t.buf, 5, 8)) # d.inner.crc.amt
                 THEN [d |-> d1, ret |-> 0, err |-> "corrupt"]
                 ELSE peek([d1 EXCEPT !.h_closed = Append(d.h_closed, Closed(d, t.buf))],
                           FillBuf(t.src))
             trailer(t) == check(t, [d EXCEPT !.inner.src = t.src])
         IN  trailer(ReadTrailer(d.inner.src, <<>>))

\* finish_member that resets the DEFLATE decoder and keeps the digest
finish_member_keep_crc(d) ==
    IF d.finished THEN [d |-> d, ret |-> 0, err |-> "none"]
    ELSE LET next(d2, remaining, h) ==
                 IF h.err # "none"
                 THEN [d |-> [d2 EXCEPT !.inner.src = h.src], ret |-> 0,
                       err |-> h.err]
                 ELSE [d |-> [d2 EXCEPT !.inner = [src |-> h.src,
                                                   z   |-> DecompressNew(FALSE),
                                                   crc |-> d2.inner.crc],
                                        !.header = h.header[1],
                                        !.h_member = d.h_member + 1,
                                        !.h_plain = <<>>],
                       ret |-> remaining, err |-> "none"]
             verified(d2, s1, remaining) ==
                 IF remaining = 0
                 THEN [d |-> [d2 EXCEPT !.inner.src = s1, !.finished = TRUE],
                       ret |-> 0, err |-> "none"]
                 ELSE next(d2, remaining, read_gz_header(s1))
             peek(d2, f) ==
                 IF f.err # "none"
                 THEN [d |-> [d2 EXCEPT !.inner.src = f.src], ret |-> 0, err |-> f.err]
                 ELSE verified(d2, f.src, Len(View(f.src)))
             check(t, d1) ==
                 IF t.err # "none" THEN [d |-> d1, ret |-> 0, err |-> t.err]
                 ELSE IF FromLE32(SubSeq(t.buf, 1, 4)) # d.inner.crc.sum
                 THEN [d |-> d1, ret |-> 0, err |-> "corrupt"]
                 ELSE IF FromLE32(SubSeq(t.buf, 5, 8)) # d.inner.crc.amt
                 THEN [d |-> d1, ret |-> 0, err |-> "corrupt"]
                 ELSE peek([d1 EXCEPT !.h_closed = Append(d.h_closed, Closed(d, t.buf))],
                           FillBuf(t.src))
             trailer(t) == check(t, [d EXCEPT !.inner.src = t.src])
         IN  trailer(ReadTrailer(d.inner.src, <<>>))

\* MultiGzDecoder::finish_member
finish_member(d) ==
    IF d.finished THEN [d |-> d, ret |-> 0, err |-> "none"]
    ELSE LET next(d2, remaining, h) ==
                 IF h.err # "none"
                 THEN [d |-> [d2 EXCEPT !.inner.src = h.src], ret |-> 0,
                       err |-> h.err]
                 ELSE [d |-> [d2 EXCEPT !.inner = [src |-> h.src,
                                                   z   |-> DecompressNew(FALSE),
                                                   crc |-> CrcNew],
                                        !.header = h.header[1],
                                        !.h_member = d.h_member + 1,
                                        !.h_plain = <<>>],
                       ret |-> remaining, err |-> "none"]
             verified(d2, s1, remaining) ==
                 IF remaining = 0
                 THEN [d |-> [d2 EXCEPT !.inner.src = s1, !.finished = TRUE],
                       ret |-> 0, err |-> "none"]
                 ELSE next(d2, remaining, read_gz_header(s1))
             peek(d2, f) ==
                 IF f.err # "none"
                 THEN [d |-> [d2 EXCEPT !.inner.src = f.src], ret |-> 0, err |-> f.err]
                 ELSE verified(d2, f.src, Len(View(f.src)))
             check(t, d1) ==
                 IF t.err # "none" THEN [d |-> d1, ret |-> 0, err |-> t.err]
                 ELSE IF FromLE32(SubSeq(t.buf, 1, 4)) # d.inner.crc.sum
                 THEN [d |-> d1, ret |-> 0, err |-> "corrupt"]
                 ELSE IF FromLE32(SubSeq(t.buf, 5, 8)) # d.inner.crc.amt
                 THEN [d |-> d1, ret |-> 0, err |-> "corrupt"]
                 ELSE peek([d1 EXCEPT !.h_closed = Append(d.h_closed, Closed(d, t.buf))],
                           FillBuf(t.src))
             trailer(t) == check(t, [d EXCEPT !.inner.src = t.src])
         IN  trailer(ReadTrailer(d.inner.src, <<>>))

\* read of a MultiGzDecoder that returns 0 at the end of every member
MultiGzDecoderReadStop(d, n) ==
    LET member(f) == [d |-> f.d, ret |-> 0, out |-> <<>>, err |-> f.err]
        inner(r) ==
            IF r.err # "none" THEN r
            ELSE IF r.ret = 0 THEN member(finish_member(r.d))
            ELSE r
    IN  inner(CrcReaderRead(d, n))

\* read of a MultiGzDecoder that reports the end of the stream when what
\* follows a trailer is no header
MultiGzDecoderReadLenient(d, n) ==
    LET member(f) ==
            IF f.err \in {"bad_header", "UnexpectedEof"}
            THEN [d |-> [f.d EXCEPT !.finished = TRUE], ret |-> 0, out |-> <<>>,
                  err |-> "none"]
            ELSE [d |-> f.d, ret |-> 0, out |-> <<>>, err |-> f.err]
        inner(r) ==
            IF r.err # "none" THEN r
            ELSE IF r.ret = 0 THEN member(finish_member(r.d))
            ELSE r
    IN  inner(CrcReaderRead(d, n))

\* impl Read for MultiGzDecoder
RECURSIVE MultiGzDecoderRead(_, _)
MultiGzDecoderRead(d, n) ==
    LET member(f) ==
            IF f.err # "none"
            THEN [d |-> f.d, ret |-> 0, out |-> <<>>, err |-> f.err]
            ELSE IF f.ret = 0
            THEN [d |-> f.d, ret |-> 0, out |-> <<>>, err |-> "none"]
            ELSE MultiGzDecoderRead(f.d, n)
        inner(r) ==
            IF r.err # "none" THEN r
            ELSE IF r.ret = 0 THEN member(finish_member(r.d))
            ELSE r
    IN  inner(CrcReaderRead(d, n))

(***************************************************************************)
(* The sink of a push adapter (Write): the bytes `data` it has accepted,   *)
(* its capacity `cap` (NoCap: unlimited) and, for the coming write calls,  *)
(* `script`: 0 for a call that returns WouldBlock, k > 0 for a call that   *)
(* accepts at most k bytes; the calls behind the script accept everything  *)
(* there is room for.  A sink without room returns Ok(0).                  *)
(***************************************************************************)
NoCap == -1

SinkNew(data, cap) == [data |-> data, cap |-> cap, script |-> <<>>]

\* Write::write of the sink: n is the count returned
SinkWrite(s, bytes) ==
    LET room == IF s.cap = NoCap THEN Len(bytes) ELSE s.cap - Len(s.data)
        k    == Min(Min(Len(bytes), room),
                    IF s.script = <<>> THEN Len(bytes) ELSE Head(s.script))
    IN  IF bytes = <<>> \/ room <= 0
        THEN [s |-> s, n |-> 0, err |-> "none"]
        ELSE IF s.script # <<>> /\ Head(s.script) = 0
        THEN [s |-> [s EXCEPT !.script = Tail(s.script)], n |-> 0,
              err |-> "WouldBlock"]
        ELSE [s |-> [s EXCEPT !.data = s.data \o Take(bytes, k),
                              !.script = IF s.script = <<>> THEN <<>>
                                         ELSE Tail(s.script)],
              n |-> k, err |-> "none"]

(***************************************************************************)
(* zio::Writer -- the push transform engine.  w = [buf, z, obj]: the       *)
(* scratch buffer, the codec and the sink (None once it was taken).        *)
(***************************************************************************)
WriterNew(sink, z) == [buf |-> <<>>, z |-> z, obj |-> Some(sink)]

\* Write::write of what a Writer writes to: the sink, or another push
\* adapter, whose codec tells the direction
RECURSIVE WriterWrite(_, _, _)
ObjWrite(s, bytes) ==
    IF "z" \in DOMAIN s
    THEN LET wrote(r) == [s |-> r.w, n |-> r.ret, err |-> r.err]
         IN  wrote(WriterWrite(IF "lvl" \in DOMAIN s.z THEN "compress"
                               ELSE "decompress", s, bytes))
    ELSE SinkWrite(s, bytes)

\* Writer::dump: drain the scratch buffer into the sink
RECURSIVE dump(_)
dump(w) ==
    IF w.buf = <<>> THEN [w |-> w, err |-> "none"]
    ELSE LET wrote(r) ==
                 IF r.err # "none"
                 THEN [w |-> [w EXCEPT !.obj = Some(r.s)], err |-> r.err]
                 ELSE IF r.n = 0
                 THEN [w |-> [w EXCEPT !.obj = Some(r.s)], err |-> "WriteZero"]
                 ELSE dump([w EXCEPT !.obj = Some(r.s), !.buf = Drop(w.buf, r.n)])
         IN  wrote(ObjWrite(w.obj[1], w.buf))

\* Writer::write
WriterWrite(dir, w, input) ==
    LET ran(d, r) ==
            IF r.status = "DataError"
            THEN [w |-> d.w, ret |-> 0, err |-> "DataError"]
            ELSE [w |-> [d.w EXCEPT !.z = r.z, !.buf = r.out], ret |-> r.used,
                  err |-> "none"]
        drained(d) ==
            IF d.err # "none" THEN [w |-> d.w, ret |-> 0, err |-> d.err]
            ELSE ran(d, Run(dir, d.w.z, input, ScratchCap, "None"))
    IN  drained(dump(w))

\* Writer::finish: run the codec with Finish, draining, up to StreamEnd; a
\* codec that can neither produce nor end keeps the loop going for ever
RECURSIVE WriterFinish(_, _)
WriterFinish(dir, w) ==
    LET ran(d, r) ==
            IF r.status = "StreamEnd" /\ r.out = <<>>
            THEN [w |-> [d.w EXCEPT !.z = r.z], err |-> "none"]
            ELSE IF r.status \in {"BufError", "DataError"}
            THEN [w |-> d.w, err |-> "hang"]
            ELSE WriterFinish(dir, [d.w EXCEPT !.z = r.z, !.buf = r.out])
        drained(d) ==
            IF d.err # "none" THEN d
            ELSE ran(d, Run(dir, d.w.z, <<>>, ScratchCap, "Finish"))
    IN  drained(dump(w))

\* Writer::flush: run the codec with Sync, draining, until nothing is pending
RECURSIVE WriterFlush(_, _)
WriterFlush(dir, w) ==
    LET ran(d, r) ==
            IF r.out = <<>>
            THEN [w |-> [d.w EXCEPT !.z = r.z], err |-> "none"]
            ELSE WriterFlush(dir, [d.w EXCEPT !.z = r.z, !.buf = r.out])
        drained(d) ==
            IF d.err # "none" THEN d
            ELSE ran(d, Run(dir, d.w.z, <<>>, ScratchCap, "Sync"))
    IN  drained(dump(w))

\* Writer::take_inner
take_inner(w) == [w EXCEPT !.obj = None]

\* Writer::replace: a new sink in the place of the old one
replace(w, sink) == [w EXCEPT !.obj = Some(sink)]

(***************************************************************************)
(* write::GzEncoder -- the push encoder.                                   *)
(* g = [inner: Writer, crc, crc_bytes_written, header]                     *)
(* An operation that never returns has the outcome "hang".                 *)
(***************************************************************************)
\* Builder::write
PushEncoderNew(sink, b, lvl, os) ==
    [inner |-> WriterNew(sink, CompressNew(lvl, FALSE)), crc |-> CrcNew,
     crc_bytes_written |-> 0, header |-> into_header(b, lvl, os)]

\* GzEncoder::write_header
RECURSIVE write_header(_)
write_header(g) ==
    IF g.header = <<>> THEN [g |-> g, err |-> "none"]
    ELSE LET wrote(r) ==
                 IF r.err # "none"
                 THEN [g |-> [g EXCEPT !.inner.obj = Some(r.s)], err |-> r.err]
                 ELSE IF r.n = 0
                 THEN [g |-> [g EXCEPT !.inner.obj = Some(r.s)], err |-> "hang"]
                 ELSE write_header([g EXCEPT !.inner.obj = Some(r.s),
                                             !.header = Drop(g.header, r.n)])
         IN  wrote(SinkWrite(g.inner.obj[1], g.header))

\* GzEncoder::try_finish, the loop that writes the trailer
RECURSIVE write_trailer(_)
write_trailer(g) ==
    IF g.crc_bytes_written >= 8 THEN [g |-> g, err |-> "none"]
    ELSE LET wrote(r) ==
                 IF r.err # "none"
                 THEN [g |-> [g EXCEPT !.inner.obj = Some(r.s)], err |-> r.err]
                 ELSE IF r.n = 0
                 THEN [g |-> [g EXCEPT !.inner.obj = Some(r.s)], err |-> "hang"]
                 ELSE write_trailer([g EXCEPT !.inner.obj = Some(r.s),
                                              !.crc_bytes_written = @ + r.n])
         IN  wrote(SinkWrite(g.inner.obj[1],
                             Drop(FooterBytes(g.crc), g.crc_bytes_written)))

\* try_finish that writes the trailer whatever crc_bytes_written says
try_finish_again(g) ==
    LET finished(h, f) ==
            IF f.err # "none" THEN [g |-> [h.g EXCEPT !.inner = f.w], err |-> f.err]
            ELSE write_trailer([h.g EXCEPT !.inner = f.w, !.crc_bytes_written = 0])
        header(h) ==
            IF h.err # "none" THEN h
            ELSE finished(h, WriterFinish("compress", h.g.inner))
    IN  header(write_header(g))

\* try_finish that leaves a trailer it could not write whole to be written
\* from its start again
try_finish_restart(g) ==
    LET trailer(t) ==
            IF t.err # "none" THEN [t EXCEPT !.g.crc_bytes_written = 0] ELSE t
        finished(h, f) ==
            IF f.err # "none" THEN [g |-> [h.g EXCEPT !.inner = f.w], err |-> f.err]
            ELSE trailer(write_trailer([h.g EXCEPT !.inner = f.w]))
        header(h) ==
            IF h.err # "none" THEN h
            ELSE finished(h, WriterFinish("compress", h.g.inner))
    IN  header(write_header(g))

\* try_finish that leaves the header to the first write
try_finish_no_header(g) ==
    LET finished(f) ==
            IF f.err # "none" THEN [g |-> [g EXCEPT !.inner = f.w], err |-> f.err]
            ELSE write_trailer([g EXCEPT !.inner = f.w])
    IN  finished(WriterFinish("compress", g.inner))

\* GzEncoder::try_finish
try_finish(g) ==
    LET finished(h, f) ==
            IF f.err # "none" THEN [g |-> [h.g EXCEPT !.inner = f.w], err |-> f.err]
            ELSE write_trailer([h.g EXCEPT !.inner = f.w])
        header(h) ==
            IF h.err # "none" THEN h
            ELSE finished(h, WriterFinish("compress", h.g.inner))
    IN  header(write_header(g))

\* write without the assertion on crc_bytes_written
PushEncoderWriteUnchecked(g, buf) ==
    LET wrote(h, r) ==
            IF r.err # "none"
            THEN [g |-> [h.g EXCEPT !.inner = r.w], ret |-> 0, err |-> r.err]
            ELSE [g |-> [h.g EXCEPT !.inner = r.w,
                                    !.crc = CrcUpdate(h.g.crc, Take(buf, r.ret))],
                  ret |-> r.ret, err |-> "none"]
        header(h) ==
            IF h.err # "none" THEN [g |-> h.g, ret |-> 0, err |-> h.err]
            ELSE wrote(h, WriterWrite("compress", h.g.inner, buf))
    IN  header(write_header(g))

\* a write that digests buf before it writes the header and the bytes
PushEncoderWriteDigestFirst(g, buf) ==
    IF g.crc_bytes_written # 0
    THEN [g |-> g, ret |-> 0, err |-> "panic"]
    ELSE LET wrote(h, r) ==
                 [g |-> [h.g EXCEPT !.inner = r.w], ret |-> r.ret, err |-> r.err]
             header(h) ==
                 IF h.err # "none" THEN [g |-> h.g, ret |-> 0, err |-> h.err]
                 ELSE wrote(h, WriterWrite("compress", h.g.inner, buf))
         IN  header(write_header([g EXCEPT !.crc = CrcUpdate(g.crc, buf)]))

\* impl Write for GzEncoder: write
PushEncoderWrite(g, buf) ==
    IF g.crc_bytes_written # 0
    THEN [g |-> g, ret |-> 0, err |-> "panic"]
    ELSE LET wrote(h, r) ==
                 IF r.err # "none"
                 THEN [g |-> [h.g EXCEPT !.inner = r.w], ret |-> 0, err |-> r.err]
                 ELSE [g |-> [h.g EXCEPT !.inner = r.w,
                                         !.crc = CrcUpdate(h.g.crc, Take(buf, r.ret))],
                       ret |-> r.ret, err |-> "none"]
             header(h) ==
                 IF h.err # "none" THEN [g |-> h.g, ret |-> 0, err |-> h.err]
                 ELSE wrote(h, WriterWrite("compress", h.g.inner, buf))
         IN  header(write_header(g))

\* a flush that finishes the DEFLATE stream
PushEncoderFlushFinish(g) ==
    IF g.crc_bytes_written # 0
    THEN [g |-> g, ret |-> 0, err |-> "panic"]
    ELSE LET flushed(r) == [g |-> [g EXCEPT !.inner = r.w], ret |-> 0, err |-> r.err]
         IN  flushed(WriterFinish("compress", g.inner))

\* impl Write for GzEncoder: flush
PushEncoderFlush(g) ==
    IF g.crc_bytes_written # 0
    THEN [g |-> g, ret |-> 0, err |-> "panic"]
    ELSE LET flushed(r) == [g |-> [g EXCEPT !.inner = r.w], ret |-> 0, err |-> r.err]
         IN  flushed(WriterFlush("compress", g.inner))

\* impl Drop for GzEncoder: the errors of try_finish are discarded, an
\* operation that never returns is not an error
PushEncoderDrop(g) ==
    IF IsSome(g.inner.obj)
    THEN LET discard(t) == [g |-> t.g, err |-> IF t.err = "hang" THEN "hang" ELSE "none"]
         IN  discard(try_finish(g))
    ELSE [g |-> g, err |-> "none"]

\* GzEncoder::finish: try_finish, then the sink is taken out and self is
\* dropped; on an error self is dropped with the sink still in it
PushEncoderFinish(g) ==
    LET dropped(t, d, data) ==
            [g |-> d.g, data |-> data, err |-> IF d.err = "hang" THEN "hang" ELSE t.err]
        failed(t, d) == dropped(t, d, d.g.inner.obj[1].data)
        tried(t) ==
            IF t.err = "hang" THEN [g |-> t.g, data |-> t.g.inner.obj[1].data, err |-> "hang"]
            ELSE IF t.err # "none" THEN failed(t, PushEncoderDrop(t.g))
            ELSE dropped(t, PushEncoderDrop([t.g EXCEPT !.inner = take_inner(t.g.inner)]),
                         t.g.inner.obj[1].data)
    IN  tried(try_finish(g))

(***************************************************************************)
(* The DEFLATE and ZLIB adapters and their reset.  A pull adapter is       *)
(* p = [src, z, crc] (crc is not used), a push adapter a zio::Writer.      *)
(***************************************************************************)
\* read::DeflateEncoder::new, over a source holding data
read_DeflateEncoder_new(data, lvl) ==
    [src |-> SrcNew(data), z |-> CompressNew(lvl, FALSE), crc |-> CrcNew]

\* read::ZlibEncoder::new
read_ZlibEncoder_new(data, lvl) ==
    [src |-> SrcNew(data), z |-> CompressNew(lvl, TRUE), crc |-> CrcNew]

\* read::DeflateDecoder::new
read_DeflateDecoder_new(data) ==
    [src |-> SrcNew(data), z |-> DecompressNew(FALSE), crc |-> CrcNew]

\* a ZLIB decoder that takes its stream for a raw DEFLATE stream
read_ZlibDecoder_new_raw(data) ==
    [src |-> SrcNew(data), z |-> DecompressNew(FALSE), crc |-> CrcNew]

\* read::ZlibDecoder::new
read_ZlibDecoder_new(data) ==
    [src |-> SrcNew(data), z |-> DecompressNew(TRUE), crc |-> CrcNew]

\* a reset of the pull encoder that gives it the new source and leaves the
\* codec as it is
read_Encoder_reset_source(p, data) == [p EXCEPT !.src = SrcNew(data)]

\* a reset that resets the codec and leaves the old source in its place
read_Encoder_reset_codec(p, data) == [p EXCEPT !.z = CompressReset(p.z)]

\* read::DeflateEncoder::reset and read::ZlibEncoder::reset: the codec is
\* reset, the buffered reader is emptied and given the new source
read_Encoder_reset(p, data) ==
    [p EXCEPT !.z = CompressReset(p.z), !.src = SrcNew(data)]

\* a reset that swaps the source and leaves the codec as it is
read_Decoder_reset_source(p, data) == [p EXCEPT !.src = SrcNew(data)]

\* read::DeflateDecoder::reset
read_DeflateDecoder_reset(p, data) ==
    [p EXCEPT !.z = DecompressNew(FALSE), !.src = SrcNew(data)]

\* read::ZlibDecoder::reset
read_ZlibDecoder_reset(p, data) ==
    [p EXCEPT !.z = DecompressNew(TRUE), !.src = SrcNew(data)]

\* write::DeflateEncoder::new
write_DeflateEncoder_new(sink, lvl) == WriterNew(sink, CompressNew(lvl, FALSE))

\* write::ZlibEncoder::new
write_ZlibEncoder_new(sink, lvl) == WriterNew(sink, CompressNew(lvl, TRUE))

\* write::DeflateDecoder::new
write_DeflateDecoder_new(sink) == WriterNew(sink, DecompressNew(FALSE))

\* write::ZlibDecoder::new
write_ZlibDecoder_new(sink) == WriterNew(sink, DecompressNew(TRUE))

\* what a reset of a push adapter returns once the stream is finished: the
\* adapter with the codec z over the new sink, and the old sink
Swapped(f, z, sink) ==
    IF f.err # "none" THEN [w |-> f.w, old |-> None, err |-> f.err]
    ELSE [w |-> replace([f.w EXCEPT !.z = z], sink), old |-> f.w.obj, err |-> "none"]

\* a reset that finishes the stream, swaps the sink and leaves the codec
write_Encoder_reset_sink(w, sink) ==
    LET finished(f) == Swapped(f, f.w.z, sink)
    IN  finished(WriterFinish("compress", w))

\* a reset that resets the codec and swaps the sink whether or not the
\* stream could be finished
write_Encoder_reset_force(w, sink) ==
    LET finished(f) ==
            [w |-> replace([f.w EXCEPT !.z = CompressReset(f.w.z)], sink),
             old |-> f.w.obj, err |-> f.err]
    IN  finished(WriterFinish("compress", w))

\* write::DeflateEncoder::reset and write::ZlibEncoder::reset
write_Encoder_reset(w, sink) ==
    LET finished(f) == Swapped(f, CompressReset(f.w.z), sink)
    IN  finished(WriterFinish("compress", w))

\* a reset of the push decoder that keeps the codec
write_DeflateDecoder_reset_keep(w, sink) ==
    LET finished(f) == Swapped(f, f.w.z, sink)
    IN  finished(WriterFinish("decompress", w))

\* write::DeflateDecoder::reset
write_DeflateDecoder_reset(w, sink) ==
    LET finished(f) == Swapped(f, DecompressNew(FALSE), sink)
    IN  finished(WriterFinish("decompress", w))

\* write::ZlibDecoder::reset
write_ZlibDecoder_reset(w, sink) ==
    LET finished(f) == Swapped(f, DecompressNew(TRUE), sink)
    IN  finished(WriterFinish("decompress", w))

\* finish of a push DEFLATE or ZLIB adapter: the stream is finished and the
\* sink taken out
write_finish(dir, w) ==
    LET finished(f) ==
            IF f.err # "none" THEN [w |-> f.w, old |-> None, err |-> f.err]
            ELSE [w |-> take_inner(f.w), old |-> f.w.obj, err |-> "none"]
    IN  finished(WriterFinish(dir, w))

\* std::io::Write::write_all over a push adapter
RECURSIVE write_all(_, _, _)
write_all(dir, w, buf) ==
    IF buf = <<>> THEN [w |-> w, err |-> "none"]
    ELSE LET wrote(r) ==
                 IF r.err # "none" THEN [w |-> r.w, err |-> r.err]
                 ELSE IF r.ret = 0 THEN [w |-> r.w, err |-> "WriteZero"]
                 ELSE write_all(dir, r.w, Drop(buf, r.ret))
         IN  wrote(WriterWrite(dir, w, buf))

\* std::io::Read::read_to_end over a pull adapter, with reads of n bytes
RECURSIVE read_to_end(_, _, _, _)
read_to_end(dir, p, n, acc) ==
    LET got(r) ==
            IF r.err # "none" THEN [p |-> r.p, out |-> acc, err |-> r.err]
            ELSE IF r.ret = 0 THEN [p |-> r.p, out |-> acc, err |-> "none"]
            ELSE read_to_end(dir, r.p, n, acc \o r.out)
    IN  got(ZioRead(dir, p, n))

(***************************************************************************)
(* The state machine: a caller encodes up to MaxMembers members with one   *)
(* kind of encoder, the bytes produced form the stream `wire`, the         *)
(* environment may damage one byte of it or cut its end, and a decoder is  *)
(* then built over it and read.                                            *)
(***************************************************************************)
VARIABLES
    phase,      \* "encode", "stream" or "decode"
    mode,       \* the encoder in use: "pull", "push", or "none" once encoding is over
    cfg,        \* [b: the builder configuration, lvl: the compression level]
    payloads,   \* the payload of every member, in order
    enc,        \* the pull encoder, when in use
    wenc,       \* the push encoder, when in use
    wire,       \* the bytes the encoders have produced so far
    ends,       \* the length of wire at the end of every completed member
    tamper,     \* what the environment did to wire
    dec,        \* [kind, d: the decoder when built, err: the error of new]
    plain,      \* the bytes the decoder's reads have returned
    empties,    \* the number of reads so far that were handed an empty buffer
    last        \* the last call: [op, empty, ret, placed, err], where empty says
                \* that the caller's buffer had length 0, ret is the count
                \* returned and placed the number of bytes put in the buffer;
                \* a read of a decoder that had already reported the end of
                \* its stream has the op "read_at_eof"

vars == <<phase, mode, cfg, payloads, enc, wenc, wire, ends, tamper, dec, plain,
          empties, last>>

OS == "linux"

FullBuilder ==
    [extra |-> Some(<<5>>), filename |-> Some(<<7, 9>>), comment |-> Some(<<>>),
     mtime |-> U32Of(0)]

\* the configurations tried: every level, with and without the optional fields
Configs ==
    {[b |-> BuilderNew, lvl |-> "Default"], [b |-> BuilderNew, lvl |-> "None"],
     [b |-> FullBuilder, lvl |-> "Best"], [b |-> FullBuilder, lvl |-> "Fast"]}

Payloads == SeqsUpTo(PayloadBytes, MaxLen)

\* the builder of member j: the configured fields with mtime j - 1
MemberBuilder(c, j) == [c.b EXCEPT !.mtime = U32Of(j - 1)]

Call(op, n, ret, placed, err) ==
    [op |-> op, empty |-> (n = 0), ret |-> ret, placed |-> placed, err |-> err]

NoCall == Call("none", 0, 0, 0, "none")

NoTamper == [kind |-> "none", pos |-> 0]

\* a GZIP member as the format lays it out: header, DEFLATE stream of the
\* payload p, CRC of p and length of p, both little-endian
GzMember(c, j, p) ==
    into_header(MemberBuilder(c, j), c.lvl, OS) \o Tokens(p) \o <<EndToken>>
    \o FooterBytes(CrcUpdate(CrcNew, p))

\* the members j.. of the payloads ps, one behind the other
RECURSIVE GzStream(_, _, _)
GzStream(c, ps, j) ==
    IF j > Len(ps) THEN <<>> ELSE GzMember(c, j, ps[j]) \o GzStream(c, ps, j + 1)

\* streams too short to hold the ten fixed bytes of a header
ShortStreams == SeqsUpTo({31, 139, 8}, MaxShort)

NoDecoder == [kind |-> "none", d |-> None, err |-> "none"]

\* what the sources do in one call: for every fetch, whether it blocks
SrcScripts == SeqsUpTo(BOOLEAN, MaxBlock)

\* what the sinks do in one call: for every write, WouldBlock or one byte
SinkScripts == SeqsUpTo({0, 1}, MaxSink)

\* the capacities of the sinks, as distances from the end of the header
CapOffsets == {-6, 1, 4}

\* the adapter x over a source that follows the script sc
WithSrcScript(x, sc) == [x EXCEPT !.inner.src.script = sc]

\* the push adapter g over a sink that follows the script sc
WithSinkScript(g, sc) ==
    IF IsSome(g.inner.obj)
    THEN [g EXCEPT !.inner.obj = Some([g.inner.obj[1] EXCEPT !.script = sc])]
    ELSE g

\* the bytes the sink of the push adapter g holds
SinkData(g) == g.inner.obj[1].data

\* a caller about to encode the first member
InitEncode ==
    /\ phase = "encode"
    /\ mode \in {"pull", "push"}
    /\ cfg \in Configs
    /\ \E p \in Payloads :
         /\ payloads = <<IF mode = "pull" THEN p ELSE <<>> >>
         /\ enc = IF mode = "pull"
                  THEN Some(GzEncoderNew(p, MemberBuilder(cfg, 1), cfg.lvl, OS))
                  ELSE None
    /\ wenc = IF mode = "push"
              THEN Some(PushEncoderNew(SinkNew(<<>>, NoCap), MemberBuilder(cfg, 1),
                                       cfg.lvl, OS))
              ELSE None
    /\ wire = <<>>
    /\ ends = <<>>
    /\ tamper = NoTamper

\* a caller holding a few bytes that no encoder produced
InitShort ==
    /\ phase = "stream"
    /\ mode = "none"
    /\ cfg = [b |-> BuilderNew, lvl |-> "Default"]
    /\ payloads = <<>>
    /\ enc = None
    /\ wenc = None
    /\ wire \in ShortStreams
    /\ ends = <<>>
    /\ tamper = [kind |-> "short", pos |-> 0]

Init ==
    /\ InitEncode \/ InitShort
    /\ dec = NoDecoder
    /\ plain = <<>>
    /\ empties = 0
    /\ last = NoCall

\* a caller about to encode one member through a pull encoder whose source
\* may return WouldBlock
InitBlock ==
    /\ InitEncode /\ mode = "pull"
    /\ dec = NoDecoder
    /\ plain = <<>>
    /\ empties = 0
    /\ last = NoCall

\* a caller about to encode one member through a push encoder whose sink
\* may be full, accept a part of a write, or return WouldBlock
InitPush ==
    /\ phase = "encode"
    /\ mode = "push"
    /\ cfg \in Configs
    /\ payloads = << <<>> >>
    /\ enc = None
    /\ \E cap \in {NoCap} \cup {Len(into_header(MemberBuilder(cfg, 1), cfg.lvl, OS)) + o :
                                  o \in CapOffsets} :
         wenc = Some(PushEncoderNew(SinkNew(<<>>, cap), MemberBuilder(cfg, 1),
                                    cfg.lvl, OS))
    /\ wire = <<>>
    /\ ends = <<>>
    /\ tamper = NoTamper
    /\ dec = NoDecoder
    /\ plain = <<>>
    /\ empties = 0
    /\ last = NoCall

\* the caller reads the pull encoder into a buffer of n bytes; the source
\* follows the script sc during the call
EncRead(n, sc) ==
    /\ phase = "encode" /\ mode = "pull"
    /\ n = 0 => empties < MaxEmpty
    /\ empties' = IF n = 0 THEN empties + 1 ELSE empties
    /\ \E r \in {GzEncoderRead(WithSrcScript(enc[1], sc), n)} :
           /\ enc' = Some(WithSrcScript(r.e, <<>>))
           /\ wire' = wire \o Take(r.placed, r.ret)
           /\ last' = Call("enc_read", n, r.ret, Len(r.placed), r.err)
    /\ UNCHANGED <<phase, mode, cfg, payloads, wenc, ends, tamper, dec, plain>>

\* the name under which a call of op on the push encoder g is recorded: a
\* call on an encoder whose trailer is out whole is recorded apart
PushOp(op, g) ==
    IF g.crc_bytes_written < 8 THEN op
    ELSE CASE op = "write"      -> "write_after_finish"
           [] op = "flush"      -> "flush_after_finish"
           [] op = "try_finish" -> "try_finish_after_finish"
           [] op = "finish"     -> "finish_after_finish"
           [] op = "drop"       -> "drop_after_finish"

\* the outcome r of an operation of the push encoder: an operation that
\* never returns ends the run
PushOutcome(op, n, r) ==
    /\ wenc' = Some(WithSinkScript(r.g, <<>>))
    /\ wire' = SinkData(r.g)
    /\ phase' = IF r.err = "hang" THEN "hung" ELSE phase
    /\ last' = Call(PushOp(op, wenc[1]), n, r.ret, 0, r.err)

\* the caller writes the bytes buf to the push encoder; the sink follows
\* the script sc during the call
PushWrite(buf, sc) ==
    /\ phase = "encode" /\ mode = "push"
    /\ Len(payloads[Len(payloads)]) + Len(buf) <= MaxLen
    /\ \E r \in {PushEncoderWrite(WithSinkScript(wenc[1], sc), buf)} :
           /\ PushOutcome("write", Len(buf), r)
           /\ payloads' = [payloads EXCEPT ![Len(payloads)] = @ \o Take(buf, r.ret)]
    /\ UNCHANGED <<mode, cfg, enc, ends, tamper, dec, plain, empties>>

\* the caller flushes the push encoder
PushFlush(sc) ==
    /\ phase = "encode" /\ mode = "push"
    /\ \E r \in {PushEncoderFlush(WithSinkScript(wenc[1], sc))} :
           PushOutcome("flush", 1, r)
    /\ UNCHANGED <<mode, cfg, payloads, enc, ends, tamper, dec, plain, empties>>

\* the caller calls try_finish on the push encoder
PushTryFinish(sc) ==
    /\ phase = "encode" /\ mode = "push"
    /\ \E r \in {try_finish(WithSinkScript(wenc[1], sc))} :
           PushOutcome("try_finish", 1, [g |-> r.g, ret |-> 0, err |-> r.err])
    /\ UNCHANGED <<mode, cfg, payloads, enc, ends, tamper, dec, plain, empties>>

\* the caller calls finish on the push encoder, which consumes it
PushFinish(sc) ==
    /\ phase = "encode" /\ mode = "push"
    /\ \E r \in {PushEncoderFinish(WithSinkScript(wenc[1], sc))} :
           /\ wenc' = None
           /\ wire' = r.data
           /\ phase' = IF r.err = "hang" THEN "hung" ELSE "closed"
           /\ last' = Call(PushOp("finish", wenc[1]), 1, 0, 0, r.err)
    /\ UNCHANGED <<mode, cfg, payloads, enc, ends, tamper, dec, plain, empties>>

\* the caller drops the push encoder
PushDrop(sc) ==
    /\ phase = "encode" /\ mode = "push"
    /\ \E r \in {PushEncoderDrop(WithSinkScript(wenc[1], sc))} :
           /\ wenc' = None
           /\ wire' = SinkData(r.g)
           /\ phase' = IF r.err = "hang" THEN "hung" ELSE "closed"
           /\ last' = Call(PushOp("drop", wenc[1]), 1, 0, 0, r.err)
    /\ UNCHANGED <<mode, cfg, payloads, enc, ends, tamper, dec, plain, empties>>

\* the caller has seen the end of the current member: a read of the pull
\* encoder into a non-empty buffer returned 0, or try_finish returned Ok
MemberComplete ==
    /\ phase = "encode"
    /\ last.err = "none"
    /\ \/ mode = "pull" /\ last.op = "enc_read" /\ ~last.empty /\ last.ret = 0
       \/ mode = "push" /\ last.op \in {"try_finish", "try_finish_after_finish"}

\* the caller starts the next member behind the one just completed
NextMember(p) ==
    /\ MemberComplete
    /\ Len(payloads) < MaxMembers
    /\ ends' = Append(ends, Len(wire))
    /\ payloads' = Append(payloads, IF mode = "pull" THEN p ELSE <<>>)
    /\ enc' = IF mode = "pull"
              THEN Some(GzEncoderNew(p, MemberBuilder(cfg, Len(payloads) + 1), cfg.lvl, OS))
              ELSE None
    /\ wenc' = IF mode = "push"
               THEN Some(PushEncoderNew(SinkNew(wire, NoCap),
                                        MemberBuilder(cfg, Len(payloads) + 1), cfg.lvl, OS))
               ELSE None
    /\ last' = NoCall
    /\ UNCHANGED <<phase, mode, cfg, wire, tamper, dec, plain, empties>>

\* the caller stops encoding: wire is the stream
EndEncode ==
    /\ MemberComplete
    /\ ends' = Append(ends, Len(wire))
    /\ phase' = "stream"
    /\ mode' = "none"
    /\ enc' = None
    /\ wenc' = None
    /\ last' = NoCall
    /\ UNCHANGED <<cfg, payloads, wire, tamper, dec, plain, empties>>

\* no stream is longer than this
MaxWire == MaxMembers * (Len(into_header(FullBuilder, "Best", OS)) + MaxLen + 9)

MemberStart(j) == IF j = 1 THEN 0 ELSE ends[j - 1]

\* the positions the environment may damage: the trailer of any member and
\* the magic and method bytes of the last member
FlipPositions ==
    UNION {(ends[j] - 7)..ends[j] : j \in 1..Len(ends)}
    \cup {MemberStart(Len(ends)) + i : i \in 1..3}

\* the stream is what the format prescribes for the payloads
WellFormed == wire = GzStream(cfg, payloads, 1)

\* the environment changes the byte at position i of a well-formed stream
Flip(i) ==
    /\ phase = "stream" /\ tamper.kind = "none" /\ WellFormed
    /\ i \in FlipPositions /\ i >= 1 /\ i <= Len(wire)
    /\ wire' = [wire EXCEPT ![i] = (@ + 1) % 256]
    /\ tamper' = [kind |-> "flip", pos |-> i]
    /\ UNCHANGED <<phase, mode, cfg, payloads, enc, wenc, ends, dec, plain, last, empties>>

\* the environment cuts the last k bytes off a well-formed stream
Truncate(k) ==
    /\ phase = "stream" /\ tamper.kind = "none" /\ WellFormed
    /\ k <= Len(wire)
    /\ wire' = Take(wire, Len(wire) - k)
    /\ tamper' = [kind |-> "trunc", pos |-> Len(wire) - k]
    /\ UNCHANGED <<phase, mode, cfg, payloads, enc, wenc, ends, dec, plain, last, empties>>

\* GzDecoder::new or MultiGzDecoder::new over the stream
DecNew(kind) ==
    /\ phase = "stream"
    /\ phase' = "decode"
    /\ \E r \in {GzDecoderNew(wire)} :
           /\ dec' = [kind |-> kind, d |-> r.d, err |-> r.err]
           /\ last' = Call("new", 1, 0, 0, r.err)
    /\ UNCHANGED <<mode, cfg, payloads, enc, wenc, wire, ends, tamper, plain, empties>>

\* the caller reads the GzDecoder into a buffer of n bytes; the source
\* follows the script sc during the call
GzRead(n, sc) ==
    /\ phase = "decode" /\ IsSome(dec.d) /\ dec.kind = "gz"
    /\ n = 0 => empties < MaxEmpty
    /\ empties' = IF n = 0 THEN empties + 1 ELSE empties
    /\ \E r \in {GzDecoderRead(WithSrcScript(dec.d[1], sc), n)} :
           /\ dec' = [dec EXCEPT !.d = Some(WithSrcScript(r.d, <<>>))]
           /\ plain' = plain \o r.out
           /\ last' = Call(IF dec.d[1].finished THEN "read_at_eof" ELSE "dec_read",
                            n, r.ret, Len(r.out), r.err)
    /\ UNCHANGED <<phase, mode, cfg, payloads, enc, wenc, wire, ends, tamper>>

\* the caller reads the MultiGzDecoder into a buffer of n bytes
MultiRead(n) ==
    /\ phase = "decode" /\ IsSome(dec.d) /\ dec.kind = "multi"
    /\ n = 0 => empties < MaxEmpty
    /\ empties' = IF n = 0 THEN empties + 1 ELSE empties
    /\ \E r \in {MultiGzDecoderRead(dec.d[1], n)} :
           /\ dec' = [dec EXCEPT !.d = Some(r.d)]
           /\ plain' = plain \o r.out
           /\ last' = Call(IF dec.d[1].finished THEN "read_at_eof" ELSE "dec_read",
                            n, r.ret, Len(r.out), r.err)
    /\ UNCHANGED <<phase, mode, cfg, payloads, enc, wenc, wire, ends, tamper>>

\* the steps that do not read; the push encoder is driven by write and
\* try_finish
Others ==
    \/ \E buf \in SeqsUpTo(PayloadBytes, MaxBuf) : PushWrite(buf, <<>>)
    \/ PushTryFinish(<<>>)
    \/ \E p \in Payloads : NextMember(p)
    \/ EndEncode
    \/ \E i \in 1..MaxWire : Flip(i)
    \/ \E k \in 1..8 : Truncate(k)
    \/ \E kind \in {"gz", "multi"} : DecNew(kind)

\* callers may pass buffers of any length, the empty one included
Next ==
    \/ \E n \in 0..MaxBuf : EncRead(n, <<>>)
    \/ \E n \in 0..MaxBuf : GzRead(n, <<>>)
    \/ \E n \in 0..MaxBuf : MultiRead(n)
    \/ Others

Spec == Init /\ [][Next]_vars

\* callers pass non-empty buffers only, as read_to_end does
NextNonEmpty ==
    \/ \E n \in 1..MaxBuf : EncRead(n, <<>>)
    \/ \E n \in 1..MaxBuf : GzRead(n, <<>>)
    \/ \E n \in 1..MaxBuf : MultiRead(n)
    \/ Others

SpecNonEmpty == Init /\ [][NextNonEmpty]_vars

\* one member through a pull encoder and a GzDecoder, read with non-empty
\* buffers from sources that may return WouldBlock
NextBlock ==
    \/ \E n \in 1..MaxBuf, sc \in SrcScripts : EncRead(n, sc)
    \/ EndEncode
    \/ DecNew("gz")
    \/ \E n \in 1..MaxBuf, sc \in SrcScripts : GzRead(n, sc)

SpecBlock == InitBlock /\ [][NextBlock]_vars

\* one member through a push encoder, by any sequence of write, flush,
\* try_finish, finish and drop, into a sink that may fail
NextPush ==
    \/ \E buf \in SeqsUpTo(PayloadBytes, MaxBuf), sc \in SinkScripts : PushWrite(buf, sc)
    \/ \E sc \in SinkScripts : PushFlush(sc)
    \/ \E sc \in SinkScripts : PushTryFinish(sc)
    \/ \E sc \in SinkScripts : PushFinish(sc)
    \/ \E sc \in SinkScripts : PushDrop(sc)

SpecPush == InitPush /\ [][NextPush]_vars

(***************************************************************************)
(* Reset: a caller runs the input through a DEFLATE or ZLIB adapter to the *)
(* end of the stream, resets the adapter onto a new endpoint with the same *)
(* input, and runs it again.  phase is "run1", "end1" (the first run is    *)
(* over), "run2", "end2" (a push adapter has all its input), "done" or     *)
(* "failed"; mode says which adapter is in use.  For an encoder payloads   *)
(* holds the input and the output of both runs is collected in wire; for a *)
(* decoder wire holds the input and plain collects the output.  ends holds *)
(* the length of the output of the first run.                              *)
(***************************************************************************)
ResetModes == {"pull_enc", "push_enc", "pull_dec", "push_dec"}

\* the longest stream an encoder produces here: head, tokens, end
MaxStream == MaxLen + 2

\* the stream a new pull encoder produces for the bytes v
Encoded(lvl, wrap, v) ==
    read_to_end("compress",
                IF wrap THEN read_ZlibEncoder_new(v, lvl)
                ELSE read_DeflateEncoder_new(v, lvl),
                MaxBuf, <<>>).out

\* the new adapter of the mode m for the configuration c and the payload v
NewPullEncoder(c, v) ==
    IF c.wrap THEN read_ZlibEncoder_new(v, c.lvl) ELSE read_DeflateEncoder_new(v, c.lvl)

NewPushEncoder(c) ==
    IF c.wrap THEN write_ZlibEncoder_new(SinkNew(<<>>, NoCap), c.lvl)
    ELSE write_DeflateEncoder_new(SinkNew(<<>>, NoCap), c.lvl)

NewPullDecoder(c, data) ==
    IF c.wrap THEN read_ZlibDecoder_new(data) ELSE read_DeflateDecoder_new(data)

NewPushDecoder(c) ==
    IF c.wrap THEN write_ZlibDecoder_new(SinkNew(<<>>, NoCap))
    ELSE write_DeflateDecoder_new(SinkNew(<<>>, NoCap))

InitReset ==
    /\ phase = "run1"
    /\ mode \in ResetModes
    /\ cfg \in {[b |-> BuilderNew, lvl |-> l, wrap |-> w] : l \in Levels, w \in BOOLEAN}
    /\ payloads \in {<<v>> : v \in Payloads}
    /\ wire = IF mode \in {"pull_dec", "push_dec"}
              THEN Encoded(cfg.lvl, cfg.wrap, payloads[1]) ELSE <<>>
    /\ enc = IF mode = "pull_enc" THEN Some(NewPullEncoder(cfg, payloads[1])) ELSE None
    /\ wenc = CASE mode = "push_enc" -> Some(NewPushEncoder(cfg))
                [] mode = "push_dec" -> Some(NewPushDecoder(cfg))
                [] OTHER -> None
    /\ dec = IF mode = "pull_dec"
             THEN [kind |-> IF cfg.wrap THEN "zlib" ELSE "deflate",
                   d |-> Some(NewPullDecoder(cfg, wire)), err |-> "none"]
             ELSE NoDecoder
    /\ plain = <<>>
    /\ ends = <<>>
    /\ tamper = NoTamper
    /\ empties = 0
    /\ last = NoCall

\* the phase after a read of a pull adapter that returned ret and err
AfterRead(ret, err) ==
    IF err # "none" THEN "failed"
    ELSE IF ret > 0 THEN phase
    ELSE IF phase = "run1" THEN "end1" ELSE "done"

\* the phase after an operation of a push adapter: next unless it failed
AfterPush(err, next) == IF err # "none" THEN "failed" ELSE next

\* the caller reads the pull encoder into a buffer of n bytes
ResetEncRead(n) ==
    /\ phase \in {"run1", "run2"} /\ mode = "pull_enc"
    /\ \E r \in {ZioRead("compress", enc[1], n)} :
           /\ enc' = Some(r.p)
           /\ wire' = wire \o r.out
           /\ phase' = AfterRead(r.ret, r.err)
           /\ last' = Call("read", n, r.ret, Len(r.out), r.err)
    /\ UNCHANGED <<mode, cfg, payloads, wenc, ends, tamper, dec, plain, empties>>

\* the caller resets the pull encoder onto a new source with the same bytes
ResetEncReader ==
    /\ phase = "end1" /\ mode = "pull_enc"
    /\ enc' = Some(read_Encoder_reset(enc[1], payloads[1]))
    /\ ends' = <<Len(wire)>>
    /\ phase' = "run2"
    /\ last' = Call("reset", 1, 0, 0, "none")
    /\ UNCHANGED <<mode, cfg, payloads, wenc, wire, tamper, dec, plain, empties>>

\* the caller reads the pull decoder into a buffer of n bytes
ResetDecRead(n) ==
    /\ phase \in {"run1", "run2"} /\ mode = "pull_dec"
    /\ \E r \in {ZioRead("decompress", dec.d[1], n)} :
           /\ dec' = [dec EXCEPT !.d = Some(r.p)]
           /\ plain' = plain \o r.out
           /\ phase' = AfterRead(r.ret, r.err)
           /\ last' = Call("read", n, r.ret, Len(r.out), r.err)
    /\ UNCHANGED <<mode, cfg, payloads, enc, wenc, wire, ends, tamper, empties>>

\* the caller resets the pull decoder onto a new source with the same bytes
ResetDecReader ==
    /\ phase = "end1" /\ mode = "pull_dec"
    /\ dec' = [dec EXCEPT !.d = Some(IF dec.kind = "zlib"
                                     THEN read_ZlibDecoder_reset(dec.d[1], wire)
                                     ELSE read_DeflateDecoder_reset(dec.d[1], wire))]
    /\ ends' = <<Len(plain)>>
    /\ phase' = "run2"
    /\ last' = Call("reset", 1, 0, 0, "none")
    /\ UNCHANGED <<mode, cfg, payloads, enc, wenc, wire, tamper, plain, empties>>

\* the caller writes all of the payload to the push encoder, in two calls
\* of write_all that split it at k
ResetEncWriteAll(k) ==
    /\ phase \in {"run1", "run2"} /\ mode = "push_enc"
    /\ k <= Len(payloads[1])
    /\ \E r \in {write_all("compress",
                           write_all("compress", wenc[1], Take(payloads[1], k)).w,
                           Drop(payloads[1], k))} :
           /\ wenc' = Some(r.w)
           /\ phase' = AfterPush(r.err, IF phase = "run1" THEN "end1" ELSE "end2")
           /\ last' = Call("write_all", Len(payloads[1]), 0, 0, r.err)
    /\ UNCHANGED <<mode, cfg, payloads, enc, wire, ends, tamper, dec, plain, empties>>

\* the caller resets the push encoder onto a new, empty sink and keeps the
\* old sink
ResetEncWriter ==
    /\ phase = "end1" /\ mode = "push_enc"
    /\ \E r \in {write_Encoder_reset(wenc[1], SinkNew(<<>>, NoCap))} :
           /\ wenc' = Some(r.w)
           /\ wire' = IF r.err = "none" THEN r.old[1].data ELSE wire
           /\ ends' = <<Len(wire')>>
           /\ phase' = AfterPush(r.err, "run2")
           /\ last' = Call("reset", 1, 0, 0, r.err)
    /\ UNCHANGED <<mode, cfg, payloads, enc, tamper, dec, plain, empties>>

\* the caller finishes the push encoder and takes the sink
ResetEncFinish ==
    /\ phase = "end2" /\ mode = "push_enc"
    /\ \E r \in {write_finish("compress", wenc[1])} :
           /\ wenc' = Some(r.w)
           /\ wire' = IF r.err = "none" THEN wire \o r.old[1].data ELSE wire
           /\ phase' = AfterPush(r.err, "done")
           /\ last' = Call("finish", 1, 0, 0, r.err)
    /\ UNCHANGED <<mode, cfg, payloads, enc, ends, tamper, dec, plain, empties>>

\* the caller writes all of the compressed bytes to the push decoder, in
\* two calls of write_all that split them at k
ResetDecWriteAll(k) ==
    /\ phase \in {"run1", "run2"} /\ mode = "push_dec"
    /\ k <= Len(wire)
    /\ \E r \in {write_all("decompress",
                           write_all("decompress", wenc[1], Take(wire, k)).w,
                           Drop(wire, k))} :
           /\ wenc' = Some(r.w)
           /\ phase' = AfterPush(r.err, IF phase = "run1" THEN "end1" ELSE "end2")
           /\ last' = Call("write_all", Len(wire), 0, 0, r.err)
    /\ UNCHANGED <<mode, cfg, payloads, enc, wire, ends, tamper, dec, plain, empties>>

\* the caller resets the push decoder onto a new, empty sink and keeps the
\* old sink
ResetDecWriter ==
    /\ phase = "end1" /\ mode = "push_dec"
    /\ \E r \in {IF wenc[1].z.wrap
                 THEN write_ZlibDecoder_reset(wenc[1], SinkNew(<<>>, NoCap))
                 ELSE write_DeflateDecoder_reset(wenc[1], SinkNew(<<>>, NoCap))} :
           /\ wenc' = Some(r.w)
           /\ plain' = IF r.err = "none" THEN r.old[1].data ELSE plain
           /\ ends' = <<Len(plain')>>
           /\ phase' = AfterPush(r.err, "run2")
           /\ last' = Call("reset", 1, 0, 0, r.err)
    /\ UNCHANGED <<mode, cfg, payloads, enc, wire, tamper, dec, empties>>

\* the caller finishes the push decoder and takes the sink
ResetDecFinish ==
    /\ phase = "end2" /\ mode = "push_dec"
    /\ \E r \in {write_finish("decompress", wenc[1])} :
           /\ wenc' = Some(r.w)
           /\ plain' = IF r.err = "none" THEN plain \o r.old[1].data ELSE plain
           /\ phase' = AfterPush(r.err, "done")
           /\ last' = Call("finish", 1, 0, 0, r.err)
    /\ UNCHANGED <<mode, cfg, payloads, enc, wire, ends, tamper, dec, empties>>

NextReset ==
    \/ \E n \in 1..MaxBuf : ResetEncRead(n)
    \/ ResetEncReader
    \/ \E n \in 1..MaxBuf : ResetDecRead(n)
    \/ ResetDecReader
    \/ \E k \in 0..MaxStream : ResetEncWriteAll(k)
    \/ ResetEncWriter
    \/ ResetEncFinish
    \/ \E k \in 0..MaxStream : ResetDecWriteAll(k)
    \/ ResetDecWriter
    \/ ResetDecFinish

SpecReset == InitReset /\ [][NextReset]_vars

\* the capacities of the first sink of a push adapter that is reset
ResetCaps == {NoCap, 0, 1, MaxLen}

\* a push adapter over a sink that may be full before the stream is out
InitResetSink ==
    /\ phase = "run1"
    /\ mode \in {"push_enc", "push_dec"}
    /\ cfg \in {[b |-> BuilderNew, lvl |-> l, wrap |-> w] : l \in Levels, w \in BOOLEAN}
    /\ payloads \in {<<v>> : v \in Payloads}
    /\ wire = IF mode = "push_dec" THEN Encoded(cfg.lvl, cfg.wrap, payloads[1]) ELSE <<>>
    /\ enc = None
    /\ \E cap \in ResetCaps :
         wenc = Some(replace(IF mode = "push_enc" THEN NewPushEncoder(cfg)
                             ELSE NewPushDecoder(cfg),
                             SinkNew(<<>>, cap)))
    /\ dec = NoDecoder
    /\ plain = <<>>
    /\ ends = <<>>
    /\ tamper = NoTamper
    /\ empties = 0
    /\ last = NoCall

NextResetSink ==
    \/ \E k \in 0..MaxStream : ResetEncWriteAll(k)
    \/ ResetEncWriter
    \/ ResetEncFinish
    \/ \E k \in 0..MaxStream : ResetDecWriteAll(k)
    \/ ResetDecWriter
    \/ ResetDecFinish

SpecResetSink == InitResetSink /\ [][NextResetSink]_vars

(***************************************************************************)
(* The counters: a caller drives a DEFLATE or ZLIB adapter call by call.   *)
(* The pull adapters are read to the end, reset and read again, as above;  *)
(* the source of a pull decoder holds the stream and then tamper.pos bytes *)
(* that belong to no stream.  A push adapter takes its input in single     *)
(* write calls, is flushed, reset onto a new sink (once) and finished;     *)
(* ends holds the number of bytes its write calls have accepted since it   *)
(* was built or reset, and its first sink may be full early.  A push       *)
(* decoder is given the bytes of wire, an encoder those of payloads.       *)
(***************************************************************************)
\* bytes that follow a stream in a source and are no part of it
TrailJunk == {<<>>, <<1>>, <<0, 255>>}

Pull == mode \in {"pull_enc", "pull_dec"}
Push == mode \in {"push_enc", "push_dec"}
Dir == IF mode \in {"pull_enc", "push_enc"} THEN "compress" ELSE "decompress"

\* the adapter in use
Adapter ==
    CASE mode = "pull_enc" -> enc[1]
      [] mode = "pull_dec" -> dec.d[1]
      [] OTHER -> wenc[1]

\* total_in that counts what the buffered reader has fetched from the source
total_in_fetched(a) == a.src.lim

\* total_in and total_out of an adapter: those of its codec
total_in(a) == a.z.total_in
total_out(a) == a.z.total_out

InitCount ==
    /\ phase = "run1"
    /\ mode \in ResetModes
    /\ cfg \in {[b |-> BuilderNew, lvl |-> l, wrap |-> w] : l \in Levels, w \in BOOLEAN}
    /\ payloads \in {<<v>> : v \in Payloads}
    /\ \E junk \in IF mode = "pull_dec" THEN TrailJunk ELSE {<<>>} :
         /\ tamper = [kind |-> "junk", pos |-> Len(junk)]
         /\ wire = IF mode \in {"pull_dec", "push_dec"}
                   THEN Encoded(cfg.lvl, cfg.wrap, payloads[1]) \o junk ELSE <<>>
    /\ enc = IF mode = "pull_enc" THEN Some(NewPullEncoder(cfg, payloads[1])) ELSE None
    /\ \E cap \in IF Push THEN ResetCaps ELSE {NoCap} :
         wenc = CASE mode = "push_enc" -> Some(replace(NewPushEncoder(cfg), SinkNew(<<>>, cap)))
                  [] mode = "push_dec" -> Some(replace(NewPushDecoder(cfg), SinkNew(<<>>, cap)))
                  [] OTHER -> None
    /\ dec = IF mode = "pull_dec"
             THEN [kind |-> IF cfg.wrap THEN "zlib" ELSE "deflate",
                   d |-> Some(NewPullDecoder(cfg, wire)), err |-> "none"]
             ELSE NoDecoder
    /\ plain = <<>>
    /\ ends = IF Push THEN <<0>> ELSE <<>>
    /\ empties = 0
    /\ last = NoCall

\* the bytes the caller of a push adapter has yet to write
ToWrite == Drop(IF mode = "push_enc" THEN payloads[1] ELSE wire, ends[1])

\* impl Write for the push adapters: one write of the next n bytes
CountWrite(n) ==
    /\ phase \in {"run1", "run2"} /\ Push
    /\ n <= Len(ToWrite)
    /\ \E r \in {WriterWrite(Dir, wenc[1], Take(ToWrite, n))} :
           /\ wenc' = Some(r.w)
           /\ ends' = <<ends[1] + r.ret>>
           /\ last' = Call("write", n, r.ret, 0, r.err)
    /\ UNCHANGED <<phase, mode, cfg, payloads, enc, wire, tamper, dec, plain, empties>>

\* impl Write for the push adapters: flush
CountFlush ==
    /\ phase \in {"run1", "run2"} /\ Push
    /\ \E r \in {WriterFlush(Dir, wenc[1])} :
           /\ wenc' = Some(r.w)
           /\ last' = Call("flush", 1, 0, 0, r.err)
    /\ UNCHANGED <<phase, mode, cfg, payloads, enc, wire, ends, tamper, dec, plain,
                   empties>>

\* reset of a push adapter onto a new, empty sink; the caller keeps what
\* the old sink holds (wire for an encoder, plain for a decoder)
CountReset ==
    /\ phase = "run1" /\ Push
    /\ \E r \in {CASE mode = "push_enc" -> write_Encoder_reset(wenc[1], SinkNew(<<>>, NoCap))
                   [] wenc[1].z.wrap -> write_ZlibDecoder_reset(wenc[1], SinkNew(<<>>, NoCap))
                   [] OTHER -> write_DeflateDecoder_reset(wenc[1], SinkNew(<<>>, NoCap))} :
           /\ wenc' = Some(r.w)
           /\ wire' = IF r.err = "none" /\ mode = "push_enc" THEN r.old[1].data ELSE wire
           /\ plain' = IF r.err = "none" /\ mode = "push_dec" THEN r.old[1].data ELSE plain
           /\ ends' = IF r.err = "none" THEN <<0>> ELSE ends
           /\ phase' = IF r.err = "none" THEN "run2" ELSE phase
           /\ last' = Call("reset", 1, 0, 0, r.err)
    /\ UNCHANGED <<mode, cfg, payloads, enc, tamper, dec, empties>>

\* finish of a push adapter: the adapter is consumed when it succeeds
CountFinish ==
    /\ phase \in {"run1", "run2"} /\ Push
    /\ \E r \in {write_finish(Dir, wenc[1])} :
           /\ wenc' = Some(r.w)
           /\ phase' = IF r.err = "none" THEN "done" ELSE phase
           /\ last' = Call("finish", 1, 0, 0, r.err)
    /\ UNCHANGED <<mode, cfg, payloads, enc, wire, ends, tamper, dec, plain, empties>>

NextCount ==
    \/ \E n \in 1..MaxBuf : ResetEncRead(n)
    \/ ResetEncReader
    \/ \E n \in 1..MaxBuf : ResetDecRead(n)
    \/ ResetDecReader
    \/ \E n \in 0..MaxBuf : CountWrite(n)
    \/ CountFlush
    \/ CountReset
    \/ CountFinish

SpecCount == InitCount /\ [][NextCount]_vars

(***************************************************************************)
(* The header alone: a caller configures a Builder (phase "config"), the   *)
(* header is serialized in front of some payload bytes ("built"), and      *)
(* read_gz_header parses the bytes ("parsed").  A builder call that panics *)
(* ends the run ("panicked").  cfg holds the builder, the level and the OS *)
(* of the process, and in x the length of the extra field the caller gave, *)
(* (a 5, then zeros); plain holds the argument of the last                 *)
(* filename or comment call; ends holds the length of the header;          *)
(* last.ret of the parse is the number of bytes the parser consumed.  A    *)
(* header of more than MaxHeader bytes is parsed without being kept in     *)
(* wire.                                                                   *)
(***************************************************************************)
\* std::env::consts::OS
OsNames == {"linux", "macos", "windows", "freebsd"}

\* the lengths of the extra field tried: the last is one more than the 16
\* bits of xlen hold
ExtraLens == {0, 1, Half}

\* the extra field of n bytes: a 5, then zeros
ExtraOf(n) == [i \in 1..n |-> IF i = 1 THEN 5 ELSE 0]

NameValues == {<<>>, <<7, 9>>, <<7, 0>>}
MtimeValues == {U32Of(1), [lo |-> 513, hi |-> 1027]}

\* the bytes that follow the header in the stream
AfterHeader == <<1, 0>>

InitHeader ==
    /\ phase = "config"
    /\ mode = "none"
    /\ cfg \in {[b |-> BuilderNew, lvl |-> l, os |-> o, x |-> None] :
                 l \in Levels, o \in OsNames}
    /\ payloads = << <<>> >>
    /\ enc = None
    /\ wenc = None
    /\ wire = <<>>
    /\ ends = <<>>
    /\ tamper = NoTamper
    /\ dec = NoDecoder
    /\ plain = <<>>
    /\ empties = 0
    /\ last = NoCall

\* the outcome r of the builder call op with the argument arg
Configured(op, arg, r) ==
    /\ cfg' = [cfg EXCEPT !.b = r.b]
    /\ plain' = arg
    /\ phase' = IF r.err = "panic" THEN "panicked" ELSE phase
    /\ last' = Call(op, 1, 0, 0, r.err)
    /\ UNCHANGED <<mode, payloads, enc, wenc, wire, ends, tamper, dec, empties>>

SetMtime(m) ==
    /\ phase = "config"
    /\ cfg' = [cfg EXCEPT !.b = BuilderMtime(cfg.b, m)]
    /\ last' = Call("mtime", 1, 0, 0, "none")
    /\ UNCHANGED <<phase, mode, payloads, enc, wenc, wire, ends, tamper, dec, plain,
                   empties>>

SetExtra(n) ==
    /\ phase = "config"
    /\ cfg' = [cfg EXCEPT !.x = Some(n)]
    /\ last' = Call("extra", 1, 0, 0, "none")
    /\ UNCHANGED <<phase, mode, payloads, enc, wenc, wire, ends, tamper, dec, plain,
                   empties>>

\* the Builder the caller has configured
TheBuilder == IF IsSome(cfg.x) THEN BuilderExtra(cfg.b, ExtraOf(cfg.x[1])) ELSE cfg.b

SetFilename(f) ==
    /\ phase = "config"
    /\ Configured("filename", f, BuilderFilename(cfg.b, f))

SetComment(c) ==
    /\ phase = "config"
    /\ Configured("comment", c, BuilderComment(cfg.b, c))

\* Builder::write / Builder::read: the header is serialized; the payload
\* bytes follow it in the stream
BuildHeader ==
    /\ phase = "config"
    /\ \E h \in {into_header(TheBuilder, cfg.lvl, cfg.os)} :
           /\ Len(h) <= MaxHeader
           /\ wire' = h \o AfterHeader
           /\ ends' = <<Len(h)>>
    /\ phase' = "built"
    /\ last' = Call("into_header", 1, 0, 0, "none")
    /\ UNCHANGED <<mode, cfg, payloads, enc, wenc, tamper, dec, plain, empties>>

\* the header as another producer writes it, with the FHCRC flag and a
\* header CRC: the right one, or one that is off by d
WithHeaderCrc(d) ==
    /\ phase = "built" /\ tamper = NoTamper
    /\ \E h \in {[Take(wire, ends[1]) EXCEPT ![4] = @ + FHCRC]} :
           /\ wire' = h \o LE16((CrcSum(U32Of(0), h).lo + d) % Half) \o AfterHeader
           /\ ends' = <<Len(h) + 2>>
    /\ tamper' = [kind |-> "fhcrc", pos |-> d]
    /\ last' = Call("fhcrc", 1, 0, 0, "none")
    /\ UNCHANGED <<phase, mode, cfg, payloads, enc, wenc, dec, plain, empties>>

\* read_gz_header over the bytes
ParseHeader ==
    /\ phase = "built"
    /\ \E r \in {read_gz_header(SrcNew(wire))} :
           /\ dec' = [kind |-> "header", d |-> r.header, err |-> r.err]
           /\ last' = Call("read_gz_header", 1, r.src.pos, 0, r.err)
    /\ phase' = "parsed"
    /\ UNCHANGED <<mode, cfg, payloads, enc, wenc, wire, ends, tamper, plain, empties>>

\* the header is serialized and parsed at once; the bytes are not kept
RoundTripHeader ==
    /\ phase = "config"
    /\ \E h \in {into_header(TheBuilder, cfg.lvl, cfg.os)} :
         \E r \in {read_gz_header(SrcNew(h \o AfterHeader))} :
           /\ ends' = <<Len(h)>>
           /\ dec' = [kind |-> "header", d |-> r.header, err |-> r.err]
           /\ last' = Call("read_gz_header", 1, r.src.pos, 0, r.err)
    /\ phase' = "parsed"
    /\ UNCHANGED <<mode, cfg, payloads, enc, wenc, wire, tamper, plain, empties>>

NextHeader ==
    \/ \E m \in MtimeValues : SetMtime(m)
    \/ \E n \in ExtraLens : SetExtra(n)
    \/ \E f \in NameValues : SetFilename(f)
    \/ \E c \in NameValues : SetComment(c)
    \/ BuildHeader
    \/ \E d \in {0, 1} : WithHeaderCrc(d)
    \/ ParseHeader
    \/ RoundTripHeader

SpecHeader == InitHeader /\ [][NextHeader]_vars

(***************************************************************************)
(* The properties.                                                         *)
(***************************************************************************)
RECURSIVE Flatten(_)
Flatten(ps) == IF ps = <<>> THEN <<>> ELSE Head(ps) \o Flatten(Tail(ps))

IsDecRead == last.op \in {"dec_read", "read_at_eof"}

\* the bytes of wire that belong to the member being encoded
Cur == Drop(wire, IF ends = <<>> THEN 0 ELSE ends[Len(ends)])

\* C1: a payload encoded by either GZIP encoder, at any level and through
\* any split into calls, and read through a GzDecoder comes back exactly:
\* the decoder is built without error, no read fails, what the reads have
\* returned is always a prefix of the payload, and a read returns 0 only
\* when all of the payload has been returned.
RoundTrip ==
    (phase = "decode" /\ dec.kind = "gz" /\ tamper.kind = "none"
     /\ Len(payloads) = 1)
    => /\ dec.err = "none"
       /\ last.err = "none"
       /\ IsPrefix(plain, payloads[1])
       /\ (IsDecRead /\ last.ret = 0) => plain = payloads[1]

RoundTripWitness ==
    /\ phase = "decode" /\ dec.kind = "gz" /\ tamper.kind = "none"
    /\ Len(payloads) = 1 /\ Len(payloads[1]) = MaxLen
    /\ cfg.b = FullBuilder
    /\ last.op = "dec_read" /\ last.ret = 0 /\ last.err = "none"
    /\ plain = payloads[1]

\* C2: read with non-empty buffers, a pull GzEncoder returns from every
\* read the number of bytes it placed in the buffer, the bytes returned so
\* far are a prefix of header ++ DEFLATE stream ++ trailer, they are all of
\* it once a read has returned 0, and so nothing follows the trailer.
PullOutput ==
    (phase = "encode" /\ mode = "pull")
    => /\ last.op = "enc_read" => (last.err = "none" /\ last.ret = last.placed)
       /\ IsPrefix(Cur, GzMember(cfg, Len(payloads), payloads[Len(payloads)]))
       /\ (last.op = "enc_read" /\ last.ret = 0)
          => Cur = GzMember(cfg, Len(payloads), payloads[Len(payloads)])

PullOutputWitness ==
    /\ phase = "encode" /\ mode = "pull"
    /\ last.op = "enc_read" /\ last.ret = 0 /\ ~last.empty
    /\ Len(payloads[Len(payloads)]) = MaxLen
    /\ cfg.b = FullBuilder
    /\ Len(Cur) = Len(enc[1].header) + MaxLen + 1 + 8
    /\ enc[1].pos = 8

\* C3: no trailer byte leaves a GZIP encoder before the codec has reported
\* the end of the DEFLATE stream: whenever the pull encoder has handed out
\* a trailer byte, and whenever the push encoder has written one, the
\* codec is at StreamEnd.
TrailerAfterStreamEnd ==
    /\ (phase = "encode" /\ mode = "pull" /\ enc[1].eof /\ enc[1].pos > 0)
       => enc[1].inner.z.done
    /\ (phase = "encode" /\ mode = "push" /\ wenc[1].crc_bytes_written > 0)
       => wenc[1].inner.z.done

\* the 8 bytes of the source in front of its read position
Behind(src) == SubSeq(src.data, src.pos - 7, src.pos)

\* the record c of a closed member holds 8 trailer bytes that state the CRC
\* and the length of the bytes decoded for the member
Verified(c) ==
    /\ Len(c.tail) = 8
    /\ FromLE32(SubSeq(c.tail, 1, 4)) = CrcSum(U32Of(0), c.plain)
    /\ FromLE32(SubSeq(c.tail, 5, 8)) = U32Of(Len(c.plain))

\* C4: a decoder reports the end of a member only behind a verified
\* trailer: every member it has left behind or reported ended has 8 bytes
\* read as its trailer whose two fields equal the CRC and the length of the
\* bytes decoded for that member, a read returns Ok(0) only with finished
\* set, and, read with non-empty buffers, a decoder with finished set stands
\* right behind those 8 bytes with nothing decoded since.
TrailerVerified ==
    (phase = "decode" /\ IsSome(dec.d))
    => /\ Len(dec.d[1].h_closed)
          >= dec.d[1].h_member - (IF dec.d[1].finished THEN 0 ELSE 1)
       /\ \A i \in 1..Len(dec.d[1].h_closed) : Verified(dec.d[1].h_closed[i])
       /\ (dec.d[1].finished /\ empties = 0)
          => /\ dec.d[1].h_closed[Len(dec.d[1].h_closed)].plain = dec.d[1].h_plain
             /\ dec.d[1].h_closed[Len(dec.d[1].h_closed)].tail
                = Behind(dec.d[1].inner.src)
       /\ (IsDecRead /\ last.ret = 0 /\ last.err = "none") => dec.d[1].finished

TrailerVerifiedWitness ==
    /\ phase = "decode" /\ dec.kind = "multi" /\ IsSome(dec.d)
    /\ dec.d[1].finished
    /\ Len(dec.d[1].h_closed) = MaxMembers
    /\ \A i \in 1..MaxMembers : Len(dec.d[1].h_closed[i].plain) = MaxLen
    /\ last.op = "dec_read" /\ last.ret = 0 /\ last.err = "none"

\* the stream is one member and the environment has damaged its trailer
TrailerDamaged ==
    /\ Len(payloads) = 1
    /\ \/ tamper.kind = "trunc"
       \/ tamper.kind = "flip" /\ tamper.pos \in (ends[1] - 7)..ends[1]

\* C5: over a member whose trailer has a changed byte or is cut short, a
\* GzDecoder never reports a clean end: it is built, it returns the payload,
\* finished is never set, and the read that would have ended the stream
\* fails with the corrupt-stream error, a short trailer included.
TrailerDamage ==
    (phase = "decode" /\ dec.kind = "gz" /\ TrailerDamaged)
    => /\ dec.err = "none"
       /\ ~dec.d[1].finished
       /\ IsPrefix(plain, payloads[1])
       /\ last.err \in {"none", "corrupt"}
       /\ (IsDecRead /\ last.ret = 0) => (last.err = "corrupt" /\ plain = payloads[1])

TrailerDamageWitness ==
    /\ phase = "decode" /\ dec.kind = "gz"
    /\ tamper.kind = "trunc" /\ Len(payloads) = 1
    /\ Len(wire) > ends[1] - 8
    /\ Len(payloads[1]) = MaxLen
    /\ IsDecRead /\ last.err = "corrupt" /\ plain = payloads[1]

\* the fixed bytes that new sees at the head of the stream fail its checks
BadMagic == Len(wire) >= 2 /\ (wire[1] # 31 \/ wire[2] # 139)
BadMethod == Len(wire) >= 3 /\ wire[3] # 8

\* C6 as stated: new fails with the bad-header error and builds no decoder
\* whenever the first two bytes are not 1F 8B or the method byte is not 8,
\* and does not fail with it otherwise.
HeaderCheckedAlways ==
    last.op = "new"
    => /\ (BadMagic \/ BadMethod) => (last.err = "bad_header" /\ dec.d = None)
       /\ ~(BadMagic \/ BadMethod) => last.err # "bad_header"

\* C6: over a source of at least ten bytes, new fails with the bad-header
\* error and builds no decoder whenever the first two bytes are not 1F 8B
\* or the method byte is not 8, and does not fail with it otherwise; over a
\* shorter source it fails with UnexpectedEof and builds no decoder,
\* whatever the bytes are.
HeaderChecked ==
    last.op = "new"
    => /\ Len(wire) < 10 => (last.err = "UnexpectedEof" /\ dec.d = None)
       /\ (Len(wire) >= 10 /\ (BadMagic \/ BadMethod))
          => (last.err = "bad_header" /\ dec.d = None)
       /\ (Len(wire) >= 10 /\ ~(BadMagic \/ BadMethod))
          => (last.err = "none" /\ IsSome(dec.d))

HeaderCheckedWitness ==
    /\ last.op = "new" /\ dec.kind = "multi"
    /\ tamper.kind = "flip" /\ BadMethod /\ ~BadMagic
    /\ last.err = "bad_header" /\ dec.d = None

\* C7: over k members put one behind the other, the reads of a
\* MultiGzDecoder return the payloads in order as one sequence and 0 only
\* when all of them have been returned; the reads of a GzDecoder return
\* the first payload and 0 from then on; neither fails.
MultiMember ==
    (phase = "decode" /\ tamper.kind = "none" /\ IsSome(dec.d))
    => /\ last.err = "none"
       /\ dec.kind = "multi"
          => /\ IsPrefix(plain, Flatten(payloads))
             /\ (IsDecRead /\ last.ret = 0) => plain = Flatten(payloads)
       /\ dec.kind = "gz"
          => /\ IsPrefix(plain, payloads[1])
             /\ (IsDecRead /\ last.ret = 0) => plain = payloads[1]

MultiMemberWitness ==
    /\ phase = "decode" /\ tamper.kind = "none" /\ dec.kind = "multi"
    /\ Len(payloads) = MaxMembers
    /\ \A j \in 1..MaxMembers : Len(payloads[j]) = MaxLen
    /\ payloads[1] # payloads[MaxMembers]
    /\ last.op = "dec_read" /\ last.ret = 0
    /\ plain = Flatten(payloads)

\* the environment has damaged the trailer of member j or the fixed bytes
\* of the header behind it
BoundaryDamaged(j) ==
    tamper.kind = "flip" /\ tamper.pos \in (ends[j] - 7)..(ends[j] + 3)

\* the member a MultiGzDecoder standing at position pos has started last:
\* it has passed every boundary that is behind pos and was not damaged
Started(pos) ==
    1 + Cardinality({j \in 1..(Len(ends) - 1) : pos > ends[j] /\ ~BoundaryDamaged(j)})

\* C8: between calls the header of a MultiGzDecoder is the header of the
\* member started last: that of the first member until the read position
\* has passed the verified trailer and the parsed header of the next, and
\* still that of the earlier member when the trailer or the next header
\* was damaged.
CurrentHeader ==
    (phase = "decode" /\ dec.kind = "multi" /\ IsSome(dec.d)
     /\ tamper.kind \in {"none", "flip", "trunc"})
    => dec.d[1].header
       = MemberBuilder(cfg, Started(dec.d[1].inner.src.pos))

CurrentHeaderWitness ==
    /\ phase = "decode" /\ dec.kind = "multi" /\ IsSome(dec.d)
    /\ tamper.kind = "none" /\ Len(payloads) = MaxMembers
    /\ dec.d[1].inner.src.pos > ends[MaxMembers - 1]
    /\ dec.d[1].header = MemberBuilder(cfg, MaxMembers)
    /\ dec.d[1].header # MemberBuilder(cfg, 1)

\* C9: once a GzDecoder has reached a clean end (the codec has reported
\* the end of the DEFLATE stream, the trailer is verified, finished is
\* set), every further read, of any buffer length, returns Ok(0), returns
\* no byte, consumes nothing from the source, verifies no trailer and
\* leaves finished set.
AfterEof ==
    [][(phase = "decode" /\ dec.kind = "gz" /\ IsSome(dec.d) /\ dec.d[1].finished
        /\ dec.d[1].inner.z.done)
       => /\ last'.op = "read_at_eof" /\ last'.ret = 0 /\ last'.err = "none"
          /\ plain' = plain
          /\ dec'.d[1].finished
          /\ dec'.d[1].inner.src.pos = dec.d[1].inner.src.pos
          /\ dec'.d[1].h_closed = dec.d[1].h_closed]_vars

AfterEofWitness ==
    /\ phase = "decode" /\ dec.kind = "gz" /\ IsSome(dec.d) /\ dec.d[1].finished
    /\ dec.d[1].inner.z.done
    /\ Len(payloads) = MaxMembers /\ tamper.kind = "none"
    /\ last.op = "read_at_eof" /\ last.ret = 0 /\ last.err = "none"
    /\ plain = payloads[1] /\ Len(plain) = MaxLen

\* C10: a read into an empty buffer returns 0 and changes nothing: not the
\* pull encoder, not the decoder, not the bytes that were handed out.
EmptyBufferRead ==
    [][empties' # empties
       => /\ last'.ret = 0 /\ last'.err = "none"
          /\ enc' = enc /\ dec' = dec
          /\ wire' = wire /\ plain' = plain]_vars

(***************************************************************************)
(* The push encoder over a sink that may fail.                             *)
(***************************************************************************)
\* the header of the member being encoded
Hdr == into_header(MemberBuilder(cfg, Len(payloads)), cfg.lvl, OS)

\* the tokens of a DEFLATE stream without the sync-flush tokens
Strip(tokens) == SelectSeq(tokens, LAMBDA t : t # SyncToken)

\* the number of tokens of body up to and including the first EndToken; 0
\* when there is none
EndAt(body) ==
    IF \E i \in 1..Len(body) : body[i] = EndToken
    THEN CHOOSE i \in 1..Len(body) :
             body[i] = EndToken /\ \A j \in 1..(i - 1) : body[j] # EndToken
    ELSE 0

\* the bytes w are a prefix of h ++ DEFLATE stream of p ++ trailer of p,
\* for a DEFLATE stream with sync-flush tokens anywhere in it
Framed(w, h, p) ==
    \/ IsPrefix(w, h)
    \/ /\ IsPrefix(h, w)
       /\ LET body == Drop(w, Len(h))
              k    == EndAt(body)
          IN  IF k = 0
              THEN IsPrefix(Strip(body), Tokens(p))
              ELSE /\ Strip(Take(body, k)) = Tokens(p) \o <<EndToken>>
                   /\ IsPrefix(Drop(body, k), FooterBytes(CrcUpdate(CrcNew, p)))

\* the bytes w are all of h ++ DEFLATE stream of p ++ trailer of p
Complete(w, h, p) ==
    /\ Framed(w, h, p)
    /\ Len(w) >= Len(h) + 9
    /\ SubSeq(w, Len(w) - 7, Len(w)) = FooterBytes(CrcUpdate(CrcNew, p))
    /\ EndAt(Drop(w, Len(h))) = Len(w) - Len(h) - 8

\* C11: through every sequence of write, flush and try_finish calls on a
\* push GzEncoder the bytes in the sink are a prefix of header ++ DEFLATE
\* stream ++ trailer: no byte produced by the codec, a sync-flush token
\* included, is in the sink before the whole header.
PushHeaderFirst ==
    (mode = "push" /\ phase \in {"encode", "closed", "hung"})
    => Framed(wire, Hdr, payloads[Len(payloads)])

\* the number of trailer bytes among the bytes w behind the header h
TrailerBytesIn(w, h) ==
    IF Len(w) <= Len(h) \/ EndAt(Drop(w, Len(h))) = 0 THEN 0
    ELSE Len(w) - Len(h) - EndAt(Drop(w, Len(h)))

PullOutputBlocking ==
    (phase = "encode" /\ mode = "pull")
    => /\ last.err \in {"none", "WouldBlock"}
       /\ IsPrefix(Cur, GzMember(cfg, Len(payloads), payloads[Len(payloads)]))
       /\ (last.op = "enc_read" /\ last.err = "none" /\ last.ret = 0)
          => Cur = GzMember(cfg, Len(payloads), payloads[Len(payloads)])

\* C14: when the source of a GzDecoder over a valid member returns
\* WouldBlock, the read returns that error and nothing is lost: a read
\* fails with WouldBlock only, the bytes returned are a prefix of the
\* payload, and a read returns 0 only at the verified end of the member.
DecodeBlocking ==
    (phase = "decode" /\ dec.kind = "gz" /\ IsSome(dec.d) /\ WellFormed)
    => /\ last.err \in {"none", "WouldBlock"}
       /\ IsPrefix(plain, payloads[1])
       /\ (IsDecRead /\ last.err = "none" /\ last.ret = 0)
          => (plain = payloads[1] /\ dec.d[1].finished)

(***************************************************************************)
(* The end of a push encoder: a full sink, drop, finish, and what follows. *)
(***************************************************************************)
\* the sink of the push encoder g is full: it returns Ok(0) for a write
SinkFull(g) == g.inner.obj[1].cap = Len(g.inner.obj[1].data)

\* the operation op on the push encoder g has bytes to write to the sink
\* before anything else: header bytes, bytes of the scratch buffer, or, for
\* try_finish, at the least the trailer
Pending(g, op) ==
    \/ g.header # <<>>
    \/ g.inner.buf # <<>>
    \/ op = "try_finish"

\* C15: a write or try_finish on a push GzEncoder that has bytes to write
\* to a sink that returns Ok(0) ends with the WriteZero failure (or with
\* the WouldBlock of the sink), whether the bytes are header bytes, bytes
\* of the scratch buffer or trailer bytes: it does not retry for ever.
ZeroSink ==
    [][(phase = "encode" /\ mode = "push"
        /\ last'.op \in {"write", "try_finish"}
        /\ SinkFull(wenc[1]) /\ Pending(wenc[1], last'.op))
       => last'.err \in {"WriteZero", "WouldBlock"}]_vars

\* std::io::Read::read_to_end over a GzDecoder
RECURSIVE ReadToEnd(_, _)
ReadToEnd(d, acc) ==
    LET got(r) ==
            IF r.err # "none" THEN [out |-> acc, err |-> r.err]
            ELSE IF r.ret = 0 THEN [out |-> acc, err |-> "none"]
            ELSE ReadToEnd(r.d, acc \o r.out)
    IN  got(GzDecoderRead(d, MaxBuf))

\* what a GzDecoder over the bytes w decodes
Decoded(w) ==
    LET built(n) ==
            IF n.err # "none" THEN [out |-> <<>>, err |-> n.err]
            ELSE ReadToEnd(n.d[1], <<>>)
    IN  built(GzDecoderNew(w))

\* C16: the drop of a push GzEncoder that has been written to and is not
\* finished, over a sink that accepts every write, leaves in the sink a
\* complete member, header ++ DEFLATE stream ++ trailer, which decodes to
\* the bytes written; the drop reports no error.
DropFinalizes ==
    [][(phase = "encode" /\ mode = "push" /\ last'.op = "drop"
        /\ payloads[1] # <<>>
        /\ wenc[1].inner.obj[1].cap = NoCap
        /\ wire' = SinkData(PushEncoderDrop(wenc[1]).g))
       => /\ last'.err = "none"
          /\ Complete(wire', Hdr, payloads[1])
          /\ Decoded(wire') = [out |-> payloads[1], err |-> "none"]]_vars

\* C17: once try_finish has returned Ok on a push GzEncoder, a further
\* try_finish, a finish or a drop returns without an error and adds no byte
\* to the sink; and a finish that returns Ok hands back a sink with the
\* member exactly once: the drop of the encoder inside finish adds nothing.
FinishOnce ==
    [][(phase = "encode" /\ mode = "push")
       => /\ last'.op \in {"try_finish_after_finish", "finish_after_finish",
                           "drop_after_finish"}
             => (wire' = wire /\ last'.err = "none")
          /\ (last'.op = "finish" /\ last'.err = "none"
              /\ Framed(wire, Hdr, payloads[1]))
             => Complete(wire', Hdr, payloads[1])]_vars

FinishOnceWitness ==
    /\ mode = "push" /\ phase = "closed"
    /\ last.op = "finish_after_finish" /\ last.err = "none"
    /\ Len(payloads[1]) = MaxLen
    /\ wire = GzMember(cfg, 1, payloads[1])

\* C18: once try_finish has returned Ok on a push GzEncoder, every write
\* panics, and nothing of its buffer reaches the sink, the codec or the CRC
\* digest: the encoder and the sink are as before the call.
WriteAfterFinish ==
    [][(phase = "encode" /\ mode = "push" /\ last'.op = "write_after_finish")
       => /\ last'.err = "panic"
          /\ wenc' = wenc
          /\ wire' = wire
          /\ payloads' = payloads]_vars

WriteAfterFinishWitness ==
    /\ mode = "push" /\ phase = "encode"
    /\ last.op = "write_after_finish" /\ last.err = "panic" /\ ~last.empty
    /\ wenc[1].crc_bytes_written = 8
    /\ wire = GzMember(cfg, 1, payloads[1])

(***************************************************************************)
(* Reset of the DEFLATE and ZLIB adapters.                                 *)
(***************************************************************************)
\* the output of the first run and of the run after the reset
FirstRun(out) == Take(out, ends[1])
SecondRun(out) == Drop(out, ends[1])

\* the output of a new encoder of the mode in use for the payload, and its
\* codec at the end
FreshEncoder ==
    IF mode = "pull_enc"
    THEN LET read(r) == [out |-> r.out, z |-> r.p.z, err |-> r.err]
         IN  read(read_to_end("compress", NewPullEncoder(cfg, payloads[1]),
                              MaxBuf, <<>>))
    ELSE LET finished(f) ==
                 [out |-> IF f.err = "none" THEN f.old[1].data ELSE <<>>,
                  z |-> f.w.z, err |-> f.err]
         IN  finished(write_finish("compress",
                 write_all("compress", NewPushEncoder(cfg), payloads[1]).w))

\* the output of a new decoder of the mode in use for the compressed bytes,
\* and its codec at the end
FreshDecoder ==
    IF mode = "pull_dec"
    THEN LET read(r) == [out |-> r.out, z |-> r.p.z, err |-> r.err]
         IN  read(read_to_end("decompress", NewPullDecoder(cfg, wire), MaxBuf, <<>>))
    ELSE LET finished(f) ==
                 [out |-> IF f.err = "none" THEN f.old[1].data ELSE <<>>,
                  z |-> f.w.z, err |-> f.err]
         IN  finished(write_finish("decompress",
                 write_all("decompress", NewPushDecoder(cfg), wire).w))

\* C19: an encoder, push or pull, DEFLATE or ZLIB, that has processed the
\* input to the end of the stream, is reset onto a new endpoint and
\* processes the same input again, fails in no step and produces twice the
\* bytes a new encoder of the same level produces for this input.
EncoderReset ==
    mode \in {"pull_enc", "push_enc"}
    => /\ phase # "failed"
       /\ phase = "done"
          => /\ FirstRun(wire) = SecondRun(wire)
             /\ SecondRun(wire) = FreshEncoder.out
             /\ FreshEncoder.err = "none"

EncoderResetWitness ==
    /\ mode = "push_enc" /\ phase = "done"
    /\ cfg.wrap /\ cfg.lvl = "Best"
    /\ Len(payloads[1]) = MaxLen
    /\ ends[1] = MaxLen + 2
    /\ Len(wire) = 2 * ends[1]

\* C20: a decoder, pull or push, raw or zlib, that has decoded a stream to
\* its end, is reset onto a new endpoint with the same compressed bytes and
\* decodes again, fails in no step and yields twice the bytes a new decoder
\* of the same kind yields, the payload; its codec ends in the state of the
\* new decoder's codec: the end of the stream seen once, the counters those
\* of one stream.
DecoderReset ==
    mode \in {"pull_dec", "push_dec"}
    => /\ phase # "failed"
       /\ phase = "done"
          => /\ FirstRun(plain) = SecondRun(plain)
             /\ SecondRun(plain) = FreshDecoder.out
             /\ FreshDecoder.err = "none"
             /\ FreshDecoder.out = payloads[1]
             /\ (IF mode = "pull_dec" THEN dec.d[1].z ELSE wenc[1].z) = FreshDecoder.z
             /\ FreshDecoder.z.done
             /\ FreshDecoder.z.total_in = Len(wire)
             /\ FreshDecoder.z.total_out = Len(payloads[1])

DecoderResetWitness ==
    /\ mode = "pull_dec" /\ phase = "done"
    /\ cfg.wrap /\ dec.kind = "zlib"
    /\ Len(payloads[1]) = MaxLen
    /\ ends[1] = MaxLen
    /\ plain = payloads[1] \o payloads[1]

\* C21: reset(w) on a push DEFLATE or ZLIB adapter finishes the stream into
\* the sink in place first.  When that fails the error is returned, the
\* adapter keeps its sink, with what it took, and its codec, with its
\* counters; when it succeeds the old sink holds the complete stream and
\* the adapter is that of a new one over w: empty scratch buffer, codec in
\* its initial state.
ResetFinishes ==
    [][(mode \in {"push_enc", "push_dec"} /\ phase = "end1" /\ last'.op = "reset")
       => IF last'.err = "none"
          THEN /\ mode = "push_enc"
                  => /\ wire' = Encoded(cfg.lvl, cfg.wrap, payloads[1])
                     /\ wenc'[1] = NewPushEncoder(cfg)
               /\ mode = "push_dec"
                  => /\ plain' = payloads[1]
                     /\ wenc'[1] = NewPushDecoder(cfg)
          ELSE /\ wenc'[1].obj[1].cap = wenc[1].obj[1].cap
               /\ IsPrefix(wenc[1].obj[1].data, wenc'[1].obj[1].data)
               /\ wenc'[1].z.total_in = wenc[1].z.total_in
               /\ wenc'[1].z.total_out >= wenc[1].z.total_out
               /\ wire' = wire /\ plain' = plain]_vars

ResetFinishesWitness ==
    /\ mode = "push_enc" /\ phase = "failed"
    /\ last.op = "reset" /\ last.err = "WriteZero"
    /\ wenc[1].z.total_in = MaxLen
    /\ wenc[1].obj[1].cap = 1 /\ wenc[1].obj[1].data # <<>>

(***************************************************************************)
(* The header: Builder, into_header, read_gz_header.                       *)
(***************************************************************************)
\* C22: read_gz_header over the bytes into_header made of a builder
\* configuration returns a Header with the extra, filename, comment and
\* mtime of the builder, and consumes the header bytes and no more.
HeaderRoundTrip ==
    (phase = "parsed" /\ tamper = NoTamper)
    => /\ dec.err = "none"
       /\ dec.d = Some([extra |-> TheBuilder.extra, filename |-> cfg.b.filename,
                        comment |-> cfg.b.comment, mtime |-> cfg.b.mtime])
       /\ last.ret = ends[1]

\* the field the builder call op sets
FieldOf(op) == IF op = "filename" THEN cfg.b.filename ELSE cfg.b.comment

\* no header and no encoder came from the builder
NothingBuilt == wire = <<>> /\ ends = <<>> /\ dec = NoDecoder

\* C23, as stated: Builder::filename and Builder::comment fail with
\* InvalidArgument on a value that holds a NUL, and nothing is built from
\* it; a value without a NUL is stored as it is.
NulInvalidArgument ==
    /\ last.op \in {"filename", "comment"}
       => IF HasNul(plain)
          THEN last.err = "InvalidArgument" /\ NothingBuilt
          ELSE last.err = "none" /\ FieldOf(last.op) = Some(plain)
    /\ phase \in {"built", "parsed"}
       => \A f \in {cfg.b.filename, cfg.b.comment} : IsSome(f) => ~HasNul(f[1])

\* C23, amended: Builder::filename and Builder::comment panic on a value
\* that holds a NUL, so the call does not return a builder and nothing is
\* built from it; a value without a NUL is stored as it is.
NulPanics ==
    /\ last.op \in {"filename", "comment"}
       => IF HasNul(plain)
          THEN last.err = "panic" /\ phase = "panicked" /\ NothingBuilt
          ELSE last.err = "none" /\ phase = "config" /\ FieldOf(last.op) = Some(plain)
    /\ phase = "panicked" => last.op \in {"filename", "comment"} /\ HasNul(plain)
    /\ phase \in {"built", "parsed"}
       => \A f \in {cfg.b.filename, cfg.b.comment} : IsSome(f) => ~HasNul(f[1])

NulPanicsWitness ==
    /\ phase = "panicked" /\ last.op = "filename" /\ plain = <<7, 0>>
    /\ cfg.b.comment = Some(<<7, 9>>) /\ cfg.b.filename = None

\* bit k (a power of two) of the byte v
Bit(v, k) == (v \div k) % 2 = 1

OsId ==
    phase = "built"
    => wire[10] = (CASE cfg.os = "linux" -> 3
                     [] cfg.os = "macos" -> 7
                     [] cfg.os = "windows" -> 0
                     [] OTHER -> 255)

\* the two bytes that end a header with FHCRC, as a number
StoredHeaderCrc == wire[ends[1] - 1] + 256 * wire[ends[1]]

\* the low 16 bits of the CRC of the header bytes ahead of them
HeaderCrc16 == CrcSum(U32Of(0), Take(wire, ends[1] - 2)).lo

\* the header in wire was parsed as the builder configured it
ParsedAsBuilt ==
    /\ dec.err = "none"
    /\ dec.d = Some([extra |-> TheBuilder.extra, filename |-> cfg.b.filename,
                     comment |-> cfg.b.comment, mtime |-> cfg.b.mtime])
    /\ last.ret = ends[1]

\* C27, as stated: with FHCRC set, read_gz_header accepts a stored value
\* equal to the low 16 bits of the CRC of the header bytes ahead of it and
\* reports any other value as the bad-header error.
HeaderCrcBadHeader ==
    (phase = "parsed" /\ tamper.kind = "fhcrc")
    => IF StoredHeaderCrc = HeaderCrc16 THEN ParsedAsBuilt
       ELSE dec.err = "bad_header" /\ dec.d = None

\* C27, amended: with FHCRC set, read_gz_header accepts a stored value
\* equal to the low 16 bits of the CRC of the header bytes ahead of it and
\* reports any other value as the corrupt-stream error.
HeaderCrcCorrupt ==
    (phase = "parsed" /\ tamper.kind = "fhcrc")
    => IF StoredHeaderCrc = HeaderCrc16 THEN ParsedAsBuilt
       ELSE dec.err = "corrupt" /\ dec.d = None

HeaderCrcCorruptWitness ==
    /\ phase = "parsed" /\ tamper.kind = "fhcrc"
    /\ StoredHeaderCrc # HeaderCrc16 /\ dec.err = "corrupt"
    /\ cfg.b.filename = Some(<<7, 9>>) /\ cfg.x = Some(1)

(***************************************************************************)
(* The trailer of an encoder.                                              *)
(***************************************************************************)
\* the number n, below 2^32 after the modulo, as four bytes, lowest first
Bytes4(n) ==
    <<n % 256, (n \div 256) % 256, (n \div Half) % 256, (n \div (256 * Half)) % 256>>

\* the encoder has emitted the last byte of the trailer of its member
TrailerOut ==
    /\ phase = "encode"
    /\ \/ mode = "pull" /\ enc[1].eof /\ enc[1].pos = 8
       \/ mode = "push" /\ wenc[1].crc_bytes_written = 8

\* C26: the last 8 bytes a GZIP encoder emits for a member are the CRC-32
\* of the payload and the length of the payload modulo 2^32, each as four
\* bytes, lowest first, whether they left in one call or over several.
TrailerBytes ==
    TrailerOut
    => /\ Len(Cur) >= 8
       /\ SubSeq(Cur, Len(Cur) - 7, Len(Cur))
            = LE16(CrcSum(U32Of(0), payloads[Len(payloads)]).lo)
              \o LE16(CrcSum(U32Of(0), payloads[Len(payloads)]).hi)
              \o Bytes4(Len(payloads[Len(payloads)]))

(***************************************************************************)
(* The counters of the DEFLATE and ZLIB adapters.                          *)
(***************************************************************************)
\* the length of the compressed stream at the head of a decoder's source
StreamLen == Len(wire) - tamper.pos

\* C28: a pull decoder over a complete stream followed by other bytes is
\* read to the end without error, returns the plaintext and no more, and
\* its total_in is then the length of the stream; at no time does total_in
\* count a byte behind the stream.
TrailingData ==
    mode = "pull_dec"
    => /\ phase # "failed"
       /\ total_in(dec.d[1]) <= StreamLen
       /\ phase = "end1" => (plain = payloads[1] /\ total_in(dec.d[1]) = StreamLen)
       /\ phase = "done"
          => (SecondRun(plain) = payloads[1] /\ total_in(dec.d[1]) = StreamLen)

\* the end of a stream of MaxLen bytes, with a byte behind it fetched by
\* the buffered reader
TrailingDataWitness ==
    /\ mode = "pull_dec" /\ phase = "end1" /\ ~cfg.wrap
    /\ tamper.pos = 2 /\ Len(payloads[1]) = MaxLen
    /\ last.op = "read" /\ last.ret = 0
    /\ dec.d[1].src.lim > StreamLen
    /\ total_in(dec.d[1]) = Len(wire) - 2

\* C29: no read, write, flush or finish of an adapter, and no reset that
\* fails, makes total_in or total_out smaller, and after a reset that
\* succeeds both are 0.
CountersMonotone ==
    [][IF last'.op = "reset" /\ last'.err = "none"
       THEN total_in(Adapter') = 0 /\ total_out(Adapter') = 0
       ELSE /\ total_in(Adapter') >= total_in(Adapter)
            /\ total_out(Adapter') >= total_out(Adapter)]_vars

\* a raw push decoder just reset: its old sink holds the MaxLen bytes it had
\* decoded, and its counters are 0
CountersMonotoneWitness ==
    /\ mode = "push_dec" /\ phase = "run2" /\ ~cfg.wrap
    /\ last.op = "reset" /\ last.err = "none"
    /\ plain = payloads[1] /\ Len(plain) = MaxLen
    /\ total_in(Adapter) = 0 /\ total_out(Adapter) = 0

\* the bytes a pull adapter has returned to its caller since it was built
\* or reset
Returned ==
    (IF mode = "pull_enc" THEN Len(wire) ELSE Len(plain))
    - (IF ends = <<>> THEN 0 ELSE ends[1])

\* the counters of a pull adapter are within what it took from its source
\* and returned to its caller
PullBounded ==
    Pull => /\ total_in(Adapter) <= Adapter.src.pos
            /\ total_out(Adapter) <= Returned

EmptyMember ==
    (phase = "encode" /\ mode = "push" /\ last.op = "try_finish"
     /\ payloads[Len(payloads)] = <<>>)
    => /\ last.err = "none"
       /\ Cur = into_header(MemberBuilder(cfg, Len(payloads)), cfg.lvl, OS)
                \o <<EndToken>> \o <<0, 0, 0, 0, 0, 0, 0, 0>>
       /\ CrcSum(U32Of(0), <<>>) = U32Of(0)
       /\ Decoded(Cur) = [out |-> <<>>, err |-> "none"]

EmptyMemberWitness ==
    /\ phase = "encode" /\ mode = "push" /\ last.op = "try_finish"
    /\ payloads = << <<>> >> /\ cfg.b = FullBuilder
    /\ wenc[1].crc_bytes_written = 8 /\ wenc[1].inner.z.done
    /\ Len(wire) = Len(wenc[1].header) + Len(into_header(FullBuilder, cfg.lvl, OS)) + 9

\* C32: on a push GzEncoder whose flushes all come when the header is out
\* (a write went first), the sink stays a prefix of header ++ DEFLATE
\* stream ++ trailer; a flush that returns Ok leaves every byte written so
\* far in the sink as DEFLATE data, nothing in the scratch buffer, and the
\* stream not ended; a later write is not refused; and a try_finish or
\* finish that returns Ok leaves a member that decodes to all bytes
\* written, those before and those after the flushes.
FlushKeepsStream ==
    [][(/\ phase = "encode"
        /\ mode = "push"
        /\ Framed(wire, Hdr, payloads[1])
        /\ last'.op \in {"write", "flush", "try_finish", "finish"}
        /\ (last'.op = "flush" => wenc[1].header = <<>>))
       => (/\ Framed(wire', Hdr, payloads'[1])
           /\ ((last'.op = "flush" /\ last'.err = "none"
                /\ ~wenc[1].inner.z.done)
               => (/\ wenc'[1].inner.buf = <<>>
                   /\ Strip(Drop(wire', Len(Hdr))) = Tokens(payloads[1])
                   /\ ~wenc'[1].inner.z.done
                   /\ wenc'[1].crc_bytes_written = 0))
           /\ ((last'.op = "write" /\ wenc[1].crc_bytes_written = 0)
               => last'.err # "panic")
           /\ ((last'.op \in {"try_finish", "finish"} /\ last'.err = "none")
               => (/\ Complete(wire', Hdr, payloads[1])
                   /\ Decoded(wire') = [out |-> payloads[1], err |-> "none"])))]_vars

\* a finished member of MaxLen bytes with a sync-flush token between the
\* tokens of the first and of the second byte
FlushKeepsStreamWitness ==
    /\ phase = "encode" /\ mode = "push"
    /\ last.op = "try_finish" /\ last.err = "none"
    /\ Len(payloads[1]) = MaxLen
    /\ Complete(wire, Hdr, payloads[1])
    /\ wire[Len(Hdr) + 2] = SyncToken
    /\ Decoded(wire) = [out |-> payloads[1], err |-> "none"]


(***************************************************************************)
(* Adapters over adapters.  mode "push_pair": a push encoder whose sink is *)
(* a push decoder over a Vec (roundtrip3); "pull_pair": a pull decoder     *)
(* over a pull encoder over the bytes; "crazy": gz_encode, deflate_encode, *)
(* zlib_encode, zlib_decode, deflate_decode, gz_decode over the bytes      *)
(* (lib.rs test::crazy).  Every pull adapter has a BufReader in front of   *)
(* what it reads.  The model's codec codes the bytes below 254.            *)
(***************************************************************************)
ChainModes == {"push_pair", "pull_pair", "crazy"}

\* the pull adapter a with the adapter r as its source
Over(a, r) == [a EXCEPT !.src = BufReaderNew(r)]

\* rdr.gz_encode(lvl).deflate_encode(lvl).zlib_encode(lvl)
\*    .zlib_decode().deflate_decode()
CrazyInner(v, lvl) ==
    Over(read_DeflateDecoder_new(<<>>),
         Over(read_ZlibDecoder_new(<<>>),
              Over(read_ZlibEncoder_new(<<>>, lvl),
                   Over(read_DeflateEncoder_new(<<>>, lvl),
                        GzEncoderNew(v, BuilderNew, lvl, OS)))))

InitChain ==
    /\ phase = "run"
    /\ mode \in ChainModes
    /\ cfg \in {[b |-> BuilderNew, lvl |-> l, wrap |-> w] : l \in Levels, w \in BOOLEAN}
    /\ mode = "crazy" => ~cfg.wrap
    /\ payloads \in {<<v>> : v \in Payloads}
    /\ wire = <<>>
    /\ enc = None
    /\ wenc = IF mode = "push_pair"
              THEN Some(replace(NewPushEncoder(cfg), NewPushDecoder(cfg)))
              ELSE None
    /\ dec = CASE mode = "pull_pair" ->
                    [kind |-> IF cfg.wrap THEN "zlib" ELSE "deflate",
                     d |-> Some(Over(NewPullDecoder(cfg, <<>>),
                                     NewPullEncoder(cfg, payloads[1]))),
                     err |-> "none"]
               [] mode = "crazy" ->
                    LET built(n) == [kind |-> "gz", d |-> n.d, err |-> n.err]
                    IN  built(GzDecoderOver(BufReaderNew(CrazyInner(payloads[1], cfg.lvl))))
               [] OTHER -> NoDecoder
    /\ plain = <<>>
    /\ ends = IF mode = "push_pair" THEN <<0>> ELSE <<>>
    /\ tamper = NoTamper
    /\ empties = 0
    /\ last = NoCall

\* one write to the encoder of the pair, of the next n bytes
ChainWrite(n) ==
    /\ phase = "run" /\ mode = "push_pair"
    /\ n <= Len(payloads[1]) - ends[1]
    /\ \E r \in {WriterWrite("compress", wenc[1],
                              SubSeq(payloads[1], ends[1] + 1, ends[1] + n))} :
           /\ wenc' = Some(r.w)
           /\ ends' = <<ends[1] + r.ret>>
           /\ last' = Call("write", n, r.ret, 0, r.err)
    /\ UNCHANGED <<phase, mode, cfg, payloads, enc, wire, tamper, dec, plain, empties>>

\* w.finish().unwrap().finish().unwrap(): the encoder, then the decoder;
\* what is left is the Vec
ChainFinish ==
    /\ phase = "run" /\ mode = "push_pair"
    /\ \E e \in {write_finish("compress", wenc[1])} :
         IF e.err # "none"
         THEN /\ wenc' = Some(e.w)
              /\ last' = Call("finish", 1, 0, 0, e.err)
              /\ UNCHANGED <<phase, plain>>
         ELSE \E d \in {write_finish("decompress", e.old[1])} :
                /\ wenc' = Some(e.w)
                /\ plain' = IF d.err = "none" THEN d.old[1].data ELSE plain
                /\ phase' = IF d.err = "none" THEN "done" ELSE phase
                /\ last' = Call("finish", 1, 0, 0, d.err)
    /\ UNCHANGED <<mode, cfg, payloads, enc, wire, ends, tamper, dec, empties>>

\* one read of the outermost pull adapter into a buffer of n bytes
ChainRead(n) ==
    /\ phase = "run" /\ mode \in {"pull_pair", "crazy"}
    /\ IsSome(dec.d)
    /\ \E r \in {IF mode = "crazy"
                  THEN GzDecoderRead(dec.d[1], n)
                  ELSE LET zio(g) == [d |-> g.p, ret |-> g.ret, out |-> g.out,
                                      err |-> g.err]
                       IN  zio(ZioRead("decompress", dec.d[1], n))} :
           /\ dec' = [dec EXCEPT !.d = Some(r.d)]
           /\ plain' = plain \o r.out
           /\ phase' = IF r.err = "none" /\ r.ret = 0 THEN "done" ELSE phase
           /\ last' = Call("read", n, r.ret, Len(r.out), r.err)
    /\ UNCHANGED <<mode, cfg, payloads, enc, wenc, wire, ends, tamper, empties>>

NextChain ==
    \/ \E n \in 1..MaxBuf : ChainWrite(n)
    \/ ChainFinish
    \/ \E n \in 1..MaxBuf : ChainRead(n)

SpecChain == InitChain /\ [][NextChain]_vars

\* C33: the raw DEFLATE and the ZLIB adapters round-trip in both directions
\* and compose.  A push encoder that writes into a push decoder, finished
\* one after the other, leaves in the Vec exactly the bytes the writes
\* accepted, for every split of the input; a pull decoder over a pull
\* encoder, and the chain gz_encode, deflate_encode, zlib_encode,
\* zlib_decode, deflate_decode, gz_decode, read back exactly the source
\* bytes; no call on the way fails.
PipesRoundTrip ==
    (mode \in ChainModes)
    => /\ dec.err = "none"
       /\ last.err = "none"
       /\ IsPrefix(plain, payloads[1])
       /\ phase = "done"
          => plain = IF mode = "push_pair" THEN Take(payloads[1], ends[1])
                     ELSE payloads[1]

\* the chain of six has been read to its end over a source of MaxLen bytes
PipesRoundTripWitness ==
    /\ mode = "crazy" /\ phase = "done"
    /\ Len(payloads[1]) = MaxLen
    /\ plain = payloads[1]
    /\ dec.d[1].finished


(***************************************************************************)
(* Reset of a GZIP encoder.  Neither GzEncoder has a reset method; the     *)
(* pull GzEncoder has the public field inner, a                            *)
(* DeflateEncoder<CrcReader<R>>, and CrcReader is exported, so that the    *)
(* one reset within reach is inner.reset(CrcReader::new(r)).  mode         *)
(* "gz_reset": a pull GzEncoder over payloads[1] is read, reset this way   *)
(* onto payloads[2] at some point, and read to its end; ends holds the     *)
(* length of wire at the reset, tamper the encoder's pos and eof then.     *)
(***************************************************************************)
\* gz.inner.reset(CrcReader::new(data)) on the pull GzEncoder e
GzEncoder_inner_reset(e, data) ==
    [e EXCEPT !.inner = [read_Encoder_reset(e.inner, data) EXCEPT !.crc = CrcNew]]

InitGzReset ==
    /\ phase = "run1"
    /\ mode = "gz_reset"
    /\ cfg \in {c \in Configs : c.lvl \in {"Default", "Best"}}
    /\ payloads \in {<<v, w>> : v \in Payloads, w \in Payloads}
    /\ wire = <<>>
    /\ enc = Some(GzEncoderNew(payloads[1], cfg.b, cfg.lvl, OS))
    /\ wenc = None
    /\ dec = NoDecoder
    /\ plain = <<>>
    /\ ends = <<>>
    /\ tamper = NoTamper
    /\ empties = 0
    /\ last = NoCall

\* one read of the encoder into a buffer of n bytes
GzResetRead(n) ==
    /\ phase \in {"run1", "run2"} /\ mode = "gz_reset"
    /\ \E r \in {GzEncoderRead(enc[1], n)} :
           /\ enc' = Some(r.e)
           /\ wire' = wire \o Take(r.placed, r.ret)
           /\ phase' = IF r.err = "none" /\ r.ret = 0 /\ phase = "run2" THEN "done"
                       ELSE phase
           /\ last' = Call("enc_read", n, r.ret, Len(r.placed), r.err)
    /\ UNCHANGED <<mode, cfg, payloads, wenc, ends, tamper, dec, plain, empties>>

\* the reset through the DEFLATE layer, onto the second payload
GzResetInner ==
    /\ phase = "run1" /\ mode = "gz_reset"
    /\ enc' = Some(GzEncoder_inner_reset(enc[1], payloads[2]))
    /\ ends' = <<Len(wire)>>
    /\ tamper' = [kind |-> IF enc[1].eof THEN "reset_eof" ELSE "reset",
                  pos |-> enc[1].pos]
    /\ phase' = "run2"
    /\ last' = Call("reset", 1, 0, 0, "none")
    /\ UNCHANGED <<mode, cfg, payloads, wenc, wire, dec, plain, empties>>

NextGzReset ==
    \/ \E n \in 1..MaxBuf : GzResetRead(n)
    \/ GzResetInner

SpecGzReset == InitGzReset /\ [][NextGzReset]_vars

\* the bytes read since the reset
SinceReset == Drop(wire, ends[1])

MemberJunk == {<<1>>, <<0, 255>>, <<31, 139, 7, 0, 0, 0, 0, 0, 0, 0>>}

\* the second member of payload w with the trailer of the payloads v and w
\* together
CumulativeMember(c, v, w) ==
    into_header(MemberBuilder(c, 2), c.lvl, OS) \o Tokens(w) \o <<EndToken>>
    \o FooterBytes(CrcUpdate(CrcNew, v \o w))

InitMulti ==
    /\ phase = "decode"
    /\ mode = "none"
    /\ cfg \in {c \in Configs : c.lvl \in {"Default", "Best"}}
    /\ payloads \in {<<v, w>> : v \in Payloads, w \in Payloads}
    /\ \E junk \in {<<>>} \cup MemberJunk, cumulative \in BOOLEAN :
         /\ ~(cumulative /\ junk # <<>>)
         /\ tamper = [kind |-> IF cumulative THEN "cumulative"
                               ELSE IF junk # <<>> THEN "junk" ELSE "none",
                      pos |-> Len(junk)]
         /\ wire = GzMember(cfg, 1, payloads[1])
                   \o (IF cumulative THEN CumulativeMember(cfg, payloads[1], payloads[2])
                       ELSE GzMember(cfg, 2, payloads[2]))
                   \o junk
    /\ ends = <<Len(GzMember(cfg, 1, payloads[1])), Len(GzStream(cfg, payloads, 1))>>
    /\ enc = None
    /\ wenc = None
    /\ \E r \in {GzDecoderNew(wire)} : dec = [kind |-> "multi", d |-> r.d, err |-> r.err]
    /\ plain = <<>>
    /\ empties = 0
    /\ last = NoCall

\* the caller reads the MultiGzDecoder into a buffer of n bytes; the source
\* follows the script sc during the call
MultiReadBlock(n, sc) ==
    /\ phase = "decode" /\ IsSome(dec.d) /\ dec.kind = "multi"
    /\ \E r \in {MultiGzDecoderRead(WithSrcScript(dec.d[1], sc), n)} :
           /\ dec' = [dec EXCEPT !.d = Some(WithSrcScript(r.d, <<>>))]
           /\ plain' = plain \o r.out
           /\ last' = Call(IF dec.d[1].finished THEN "read_at_eof" ELSE "dec_read",
                            n, r.ret, Len(r.out), r.err)
    /\ UNCHANGED <<phase, mode, cfg, payloads, enc, wenc, wire, ends, tamper, empties>>

NextMulti == \E n \in 1..MaxBuf : MultiRead(n)

SpecMulti == InitMulti /\ [][NextMulti]_vars

\* the scripts of SpecMultiBlock: no fetch blocks, or the k-th fetch of
\* the call does, for a k up to the fetches that take a call from the end
\* of a DEFLATE stream over the trailer to the next header
BlockOnce == {<<>>} \cup {[i \in 1..k |-> i = k] : k \in 1..((8 \div BufCap) + 3)}

NextMultiBlock == \E n \in 1..MaxBuf, sc \in BlockOnce : MultiReadBlock(n, sc)

\* the two members as the encoder writes them
InitMultiBlock == InitMulti /\ tamper.kind = "none"

SpecMultiBlock == InitMultiBlock /\ [][NextMultiBlock]_vars

\* the bytes decoded for the member the decoder is in
MemberPlain ==
    IF dec.d[1].h_member = 1 THEN plain ELSE Drop(plain, Len(payloads[1]))

\* C36: at every member transition the MultiGzDecoder resets the digest and
\* the DEFLATE decoder, so that a trailer is checked against its own member
\* alone: the digest covers the bytes decoded for the current member only;
\* a stream whose members carry their own trailers is decoded to the end
\* without error; a second member whose trailer states the CRC and the
\* length of both payloads together is rejected as corrupt, and the end of
\* the stream is never reported for it.
PerMemberTrailer ==
    (phase = "decode" /\ dec.kind = "multi" /\ IsSome(dec.d)
     /\ tamper.kind \in {"none", "cumulative"})
    => /\ IsPrefix(plain, payloads[1] \o payloads[2])
       /\ last.err = "none"
          => dec.d[1].inner.crc = CrcUpdate(CrcNew, MemberPlain)
       /\ (tamper.kind = "none" \/ payloads[1] = <<>>)
          => /\ last.err = "none"
             /\ dec.d[1].finished
                => /\ plain = payloads[1] \o payloads[2]
                   /\ Len(dec.d[1].h_closed) = 2
                   /\ \A j \in 1..2 : dec.d[1].h_closed[j].plain = payloads[j]
       /\ (tamper.kind = "cumulative" /\ payloads[1] # <<>>)
          => /\ ~dec.d[1].finished
             /\ Len(dec.d[1].h_closed) <= 1
             /\ last.err \in {"none", "corrupt"}
             /\ (last.op = "dec_read" /\ last.ret = 0) => last.err = "corrupt"

\* the read behind the last byte of a second member with the trailer of
\* both payloads has failed as corrupt
PerMemberTrailerWitness ==
    /\ phase = "decode" /\ dec.kind = "multi" /\ IsSome(dec.d)
    /\ tamper.kind = "cumulative"
    /\ Len(payloads[1]) = MaxLen /\ Len(payloads[2]) = MaxLen
    /\ plain = payloads[1] \o payloads[2]
    /\ dec.d[1].h_member = 2 /\ Len(dec.d[1].h_closed) = 1
    /\ last.op = "dec_read" /\ last.err = "corrupt"


\* C38: behind a verified trailer the MultiGzDecoder reports the end of the
\* stream exactly when the source has no further byte: a read returns Ok(0)
\* only with the source used up, behind the trailers of both members; a
\* stream that ends behind the second trailer is reported ended with that
\* trailer; bytes that remain are taken for the start of another member, so
\* that the read behind a stream followed by bytes that are no header
\* fails and never reports the end.
EofOnlyAtEnd ==
    (phase = "decode" /\ dec.kind = "multi" /\ IsSome(dec.d)
     /\ tamper.kind \in {"none", "junk"})
    => /\ IsPrefix(plain, payloads[1] \o payloads[2])
       /\ dec.d[1].finished
          => /\ dec.d[1].inner.src.pos = Len(wire)
             /\ tamper.kind = "none"
             /\ Len(dec.d[1].h_closed) = 2
       /\ (last.op = "dec_read" /\ last.err = "none" /\ last.ret = 0)
          => dec.d[1].finished
       /\ tamper.kind = "none"
          => /\ last.err = "none"
             /\ Len(dec.d[1].h_closed) = 2 => dec.d[1].finished
       /\ tamper.kind = "junk"
          => /\ ~dec.d[1].finished
             /\ (last.op = "dec_read" /\ last.ret = 0) => last.err # "none"
             /\ Len(dec.d[1].h_closed) < 2 => last.err = "none"

\* the read behind the second trailer has found bytes that are no header
\* and has failed
EofOnlyAtEndWitness ==
    /\ phase = "decode" /\ dec.kind = "multi" /\ IsSome(dec.d)
    /\ tamper.kind = "junk"
    /\ plain = payloads[1] \o payloads[2] /\ Len(plain) = 2 * MaxLen
    /\ Len(dec.d[1].h_closed) = 2
    /\ last.op = "dec_read" /\ last.err = "bad_header"
    /\ ~dec.d[1].finished


\* the decoder d has not touched the trailer of the member it is in
BeforeTrailer(d) ==
    /\ Len(d.h_closed) = d.h_member - 1
    /\ d.inner.src.pos <= ends[d.h_member] - 8

\* the trailer of the member the decoder d is in has been read and verified,
\* the header of the next member has not been parsed, and the source
\* stands right behind the trailer
BetweenMembers(d) ==
    /\ Len(d.h_closed) = d.h_member /\ ~d.finished
    /\ d.inner.src.pos = ends[d.h_member]

\* C37: when the peek at the next member's header, or its parse, fails with
\* WouldBlock after the trailer of the current member was read and
\* verified, the read returns that error unchanged, and a read retried
\* resumes at the next header: the trailer is not read a second time and
\* decoding goes on without error.
HeaderRetry ==
    [][(phase = "decode" /\ dec.kind = "multi" /\ IsSome(dec.d)
        /\ tamper.kind = "none" /\ last'.op = "dec_read")
       => (/\ (BeforeTrailer(dec.d[1]) /\ BetweenMembers(dec'.d[1]))
               => last'.err = "WouldBlock"
           /\ BetweenMembers(dec.d[1])
               => (/\ last'.err \in {"none", "WouldBlock"}
                   /\ Len(dec'.d[1].h_closed) = Len(dec.d[1].h_closed)
                      \/ dec'.d[1].h_member > dec.d[1].h_member
                   /\ IsPrefix(plain', payloads[1] \o payloads[2])))]_vars


(***************************************************************************)
(* Headers cut short: the source holds the header of a builder, the last   *)
(* tamper.pos bytes of it missing, and nothing else; a decoder is built    *)
(* over it.                                                                *)
(***************************************************************************)
CutBuilders ==
    {[extra |-> x, filename |-> f, comment |-> c, mtime |-> U32Of(0)] :
        x \in {None, Some(<<5>>)},
        f \in {None, Some(<<7, 9>>)},
        c \in {None, Some(<<>>), Some(<<4>>)}}

InitCut ==
    /\ phase = "stream"
    /\ mode = "none"
    /\ cfg \in {[b |-> b, lvl |-> "Default"] : b \in CutBuilders}
    /\ payloads = << <<>> >>
    /\ \E k \in 1..MaxHeader :
         /\ k <= Len(into_header(cfg.b, cfg.lvl, OS))
         /\ tamper = [kind |-> "cut", pos |-> k]
         /\ wire = Take(into_header(cfg.b, cfg.lvl, OS),
                        Len(into_header(cfg.b, cfg.lvl, OS)) - k)
    /\ ends = <<>>
    /\ enc = None
    /\ wenc = None
    /\ dec = NoDecoder
    /\ plain = <<>>
    /\ empties = 0
    /\ last = NoCall

NextCut == \E kind \in {"gz", "multi"} : DecNew(kind)

SpecCut == InitCut /\ [][NextCut]_vars

\* C39: read_gz_header returns an error whenever the source ends before the
\* header is complete, the end inside FNAME or FCOMMENT before the NUL
\* included: no decoder, and so no Header, is built from a header that was
\* cut short.
HeaderCutFails ==
    (phase = "decode" /\ tamper.kind = "cut")
    => dec.err # "none" /\ dec.d = None

(***************************************************************************)
(* try_finish, one write of the sink at a time.  The caller has written    *)
(* the payload, or nothing at all, and calls try_finish over a sink that   *)
(* never fails and takes between one byte and `take` bytes of every write. *)
(* phase says where the call is: "header" (the loop of write_header),      *)
(* "codec" (the loop of Writer::finish), "trailer" (the loop that writes   *)
(* the eight trailer bytes), "done" (try_finish returned Ok) or "failed"   *)
(* (it returned an error).  ends holds the length of the sink's bytes when *)
(* the trailer loop was entered.                                           *)
(***************************************************************************)
Takes == {1, 3}

\* the sink of g, about to take at most k bytes of the next write
Taking(g, k) == [g.inner.obj[1] EXCEPT !.script = <<k>>]

\* one turn of the loop of write_header
write_header_turn(g, k) ==
    LET wrote(r) ==
            [g |-> [g EXCEPT !.inner.obj = Some(r.s),
                             !.header = Drop(g.header, r.n)],
             n |-> r.n, err |-> r.err]
    IN  wrote(SinkWrite(Taking(g, k), g.header))

\* one turn of the loop of Writer::dump, as Writer::finish runs it
dump_turn(g, k) ==
    LET wrote(r) ==
            [g |-> [g EXCEPT !.inner.obj = Some(r.s),
                             !.inner.buf = Drop(g.inner.buf, r.n)],
             n |-> r.n,
             err |-> IF r.err = "none" /\ r.n = 0 THEN "WriteZero" ELSE r.err]
    IN  wrote(SinkWrite(Taking(g, k), g.inner.buf))

\* a trailer loop that takes every write to have written all it was handed
write_trailer_turn_whole(g, k) ==
    LET wrote(r) ==
            [g |-> [g EXCEPT !.inner.obj = Some(r.s),
                             !.crc_bytes_written = 8],
             n |-> r.n, err |-> r.err]
    IN  wrote(SinkWrite(Taking(g, k),
                        Drop(FooterBytes(g.crc), g.crc_bytes_written)))

\* one turn of the loop of try_finish that writes the trailer
write_trailer_turn(g, k) ==
    LET wrote(r) ==
            [g |-> [g EXCEPT !.inner.obj = Some(r.s),
                             !.crc_bytes_written = @ + r.n],
             n |-> r.n, err |-> r.err]
    IN  wrote(SinkWrite(Taking(g, k),
                        Drop(FooterBytes(g.crc), g.crc_bytes_written)))

InitFinish ==
    /\ phase = "header"
    /\ mode = "finish"
    /\ cfg \in Configs
    /\ \E v \in Payloads, written \in BOOLEAN :
         \E w \in {PushEncoderWrite(
                       PushEncoderNew(SinkNew(<<>>, NoCap), MemberBuilder(cfg, 1),
                                      cfg.lvl, OS), v)} :
           /\ written => (w.err = "none" /\ w.ret = Len(v))
           /\ ~written => v = <<>>
           /\ payloads = <<v>>
           /\ wenc = Some(IF written THEN w.g
                          ELSE PushEncoderNew(SinkNew(<<>>, NoCap),
                                              MemberBuilder(cfg, 1), cfg.lvl, OS))
    /\ wire = SinkData(wenc[1])
    /\ enc = None
    /\ ends = <<>>
    /\ tamper = NoTamper
    /\ dec = NoDecoder
    /\ plain = <<>>
    /\ empties = 0
    /\ last = NoCall

\* what one write of the sink leaves behind: the encoder r.g, the phase next
\* when the write succeeded
FinishTurn(op, r, next) ==
    /\ wenc' = Some(r.g)
    /\ wire' = SinkData(r.g)
    /\ phase' = IF r.err # "none" THEN "failed" ELSE next
    /\ last' = Call(op, 1, r.n, 0, r.err)

\* write_header: the header is not drained, the loop takes a turn
FinishHeaderTurn(k) ==
    /\ mode = "finish" /\ phase = "header"
    /\ wenc[1].header # <<>>
    /\ \E r \in {write_header_turn(wenc[1], k)} : FinishTurn("write_header", r, "header")
    /\ UNCHANGED <<mode, cfg, payloads, enc, ends, tamper, dec, plain, empties>>

\* write_header: the header is drained, try_finish goes on to inner.finish
FinishHeaderDone ==
    /\ mode = "finish" /\ phase = "header"
    /\ wenc[1].header = <<>>
    /\ phase' = "codec"
    /\ last' = Call("write_header", 1, 0, 0, "none")
    /\ UNCHANGED <<mode, cfg, payloads, enc, wenc, wire, ends, tamper, dec, plain,
                   empties>>

\* Writer::finish: the scratch buffer holds bytes, dump takes a turn
FinishDumpTurn(k) ==
    /\ mode = "finish" /\ phase = "codec"
    /\ wenc[1].inner.buf # <<>>
    /\ \E r \in {dump_turn(wenc[1], k)} : FinishTurn("dump", r, "codec")
    /\ UNCHANGED <<mode, cfg, payloads, enc, ends, tamper, dec, plain, empties>>

\* Writer::finish: the scratch buffer is empty, the codec runs with Finish;
\* the loop ends when the codec is at StreamEnd and has produced nothing
FinishRun ==
    /\ mode = "finish" /\ phase = "codec"
    /\ wenc[1].inner.buf = <<>>
    /\ \E r \in {Run("compress", wenc[1].inner.z, <<>>, ScratchCap, "Finish")} :
         /\ wenc' = Some([wenc[1] EXCEPT !.inner.z = r.z, !.inner.buf = r.out])
         /\ phase' = IF r.status = "StreamEnd" /\ r.out = <<>> THEN "trailer"
                     ELSE IF r.status \in {"BufError", "DataError"} THEN "failed"
                     ELSE "codec"
         /\ ends' = IF r.status = "StreamEnd" /\ r.out = <<>>
                    THEN <<Len(SinkData(wenc[1]))>> ELSE ends
         /\ last' = Call("run", 1, Len(r.out), 0, "none")
    /\ UNCHANGED <<mode, cfg, payloads, enc, wire, tamper, dec, plain, empties>>

\* try_finish: fewer than eight trailer bytes are written, the loop takes a turn
FinishTrailerTurn(k) ==
    /\ mode = "finish" /\ phase = "trailer"
    /\ wenc[1].crc_bytes_written < 8
    /\ \E r \in {write_trailer_turn(wenc[1], k)} : FinishTurn("write_trailer", r, "trailer")
    /\ UNCHANGED <<mode, cfg, payloads, enc, ends, tamper, dec, plain, empties>>

\* try_finish: the trailer is written, the call returns Ok
FinishReturn ==
    /\ mode = "finish" /\ phase = "trailer"
    /\ wenc[1].crc_bytes_written >= 8
    /\ phase' = "done"
    /\ last' = Call("try_finish", 1, 0, 0, "none")
    /\ UNCHANGED <<mode, cfg, payloads, enc, wenc, wire, ends, tamper, dec, plain,
                   empties>>

NextFinish ==
    \/ \E k \in Takes : FinishHeaderTurn(k)
    \/ FinishHeaderDone
    \/ \E k \in Takes : FinishDumpTurn(k)
    \/ FinishRun
    \/ \E k \in Takes : FinishTrailerTurn(k)
    \/ FinishReturn

\* the call runs on its caller's thread: while it has not returned, its
\* next step is taken
SpecFinish == InitFinish /\ [][NextFinish]_vars /\ WF_vars(NextFinish)

\* try_finish has returned Ok with the header drained, the codec at the end
\* of its stream and the eight trailer bytes, no more and no fewer, behind
\* the stream
FinishedOk ==
    /\ phase = "done"
    /\ last.op = "try_finish" /\ last.err = "none"
    /\ wenc[1].header = <<>>
    /\ wenc[1].inner.z.done
    /\ wenc[1].inner.buf = <<>>
    /\ wenc[1].crc_bytes_written = 8
    /\ Len(wire) - ends[1] = 8
    /\ wire = GzMember(cfg, 1, payloads[1])

\* C40: over a sink that never fails and takes at least one byte of every
\* non-empty write, try_finish on the push GzEncoder terminates: it
\* eventually returns Ok, with the header drained, the codec at StreamEnd,
\* crc_bytes_written at 8 and exactly eight trailer bytes written.
TryFinishTerminates == <>FinishedOk

\* try_finish has returned Ok for a payload of the greatest length behind a
\* header with all its optional fields, the sink having taken one or three
\* bytes of every write
TryFinishTerminatesWitness ==
    /\ mode = "finish" /\ phase = "done"
    /\ Len(payloads[1]) = MaxLen
    /\ cfg.b = FullBuilder
    /\ wenc[1].crc_bytes_written = 8
    /\ wire = GzMember(cfg, 1, payloads[1])

====
